---- MODULE Spec2Model ----
(***************************************************************************)
(* Model of the rolling session-block aggregator of                        *)
(* scripts/context-monitor-generic.py                                      *)
(* (get_claude_session_data_claude_monitor_exact).                         *)
(*                                                                         *)
(* Time is counted in ticks of one minute, the resolution of the reported   *)
(* reset time.  A datetime is a pair: its instant in ticks (what            *)
(* comparisons and subtractions of aware datetimes use) and the part of its *)
(* UTC offset below one hour (what replace(minute=0, ...) sees).            *)
(*                                                                         *)
(* Second part: the streaming and connection registries of                 *)
(* webui/services/chat_manager.py (ChatManager).  The manager runs on one   *)
(* asyncio event loop: the code between two awaits that suspend is one step *)
(* of the model, and a coroutine suspended at an await is a record that     *)
(* says where it resumes.                                                   *)
(***************************************************************************)
EXTENDS Integers, Sequences, FiniteSets, Bags, TLC

VARIABLES
    log,               \* the JSONL lines in scan order (all files, concatenated)
    now,               \* datetime.now(timezone.utc) taken at the start of the run
    pc,                \* position in the function
    all_entries,       \* list of usage entries
    processed_hashes,  \* set of dedup hashes
    session_blocks,    \* list of finished blocks
    result,            \* the returned dict (<<>> is the empty dict)
    claude_reset,      \* main: the reset segment of the status line ("" before it is built)
    cost_usage         \* main: the cost segment of the status line ("" before it is built)

VARIABLES
    sessions,                \* _sessions: per session id, the ids of its messages
    messages,                \* the ChatMessage objects, by message id
    streaming_states,        \* _streaming_states: session id -> StreamingState object
    streaming_objects,       \* the StreamingState objects, by the message they were made for
    active_streaming_tasks,  \* _active_streaming_tasks: message ids with a registered task
    tasks,                   \* the asyncio tasks running _stream_message_content
    typing_indicators,       \* _typing_indicators: session id -> TypingIndicator
    connection_states,       \* _connection_states: client id -> ConnectionState
    active_connections,      \* _active_connections: client ids with a websocket
    connections,             \* _connections: client id -> ConnectionStatus.is_active
    handlers,                \* calls of the manager suspended at an await
    client_ids,              \* number of client ids drawn from uuid4
    input_history,           \* _input_history: session id -> list of InputHistoryEntry
    input_drafts,            \* _input_drafts: session id -> InputDraft
    input_analytics,         \* _input_analytics: session id -> InputAnalytics
    utcnow,                  \* datetime.utcnow(), in seconds
    raised,                  \* the exception that ended the last call of the manager ("" when it returned)
    response,                \* the last HTTP response (<<>> when none was sent)
    message_chunks           \* _message_chunks: message id -> list of MessageChunk

aggregatorVars ==
    <<log, now, pc, all_entries, processed_hashes, session_blocks, result,
      claude_reset, cost_usage>>

inputVars == <<input_history, input_drafts, input_analytics, utcnow>>

streamingVars ==
    <<sessions, messages, streaming_states, streaming_objects,
      active_streaming_tasks, tasks, typing_indicators, connection_states,
      active_connections, connections, handlers, client_ids>>

httpVars == <<raised, response>>

loadingVars == <<message_chunks>>

chatVars == <<streamingVars, inputVars, httpVars, loadingVars>>

vars == <<aggregatorVars, chatVars>>

\* ChatManager.__init__: every registry is empty
NewChatManager ==
    /\ sessions = <<>>
    /\ messages = <<>>
    /\ streaming_states = <<>>
    /\ streaming_objects = <<>>
    /\ active_streaming_tasks = {}
    /\ tasks = <<>>
    /\ typing_indicators = <<>>
    /\ connection_states = <<>>
    /\ active_connections = {}
    /\ connections = <<>>
    /\ handlers = EmptyBag
    /\ client_ids = 0
    /\ input_history = <<>>
    /\ input_drafts = <<>>
    /\ input_analytics = <<>>
    /\ utcnow = 0
    /\ raised = ""
    /\ response = <<>>
    /\ message_chunks = <<>>

----------------------------------------------------------------------------
\* Program constants

hours_back == 192
SessionDurationHours == 5
SessionGapHours == 2
MinActiveEntries == 3
RecentSeconds == 1800
TokenBudget == 88000

\* Time scale of the model: one tick is one minute
SecondsPerTick == 60
TicksPerHour == 3600 \div SecondsPerTick
MinutesPerTick == SecondsPerTick \div 60

\* The grid of the generated inputs: half an hour, the recency threshold
Step == RecentSeconds \div SecondsPerTick

lookback == hours_back * TicksPerHour
session_duration == SessionDurationHours * TicksPerHour
session_gap == SessionGapHours * TicksPerHour

\* Bounds of the model: the longest log taken in both orders
MaxLines == 3
\* the longest log of the ingestion specification
MaxIngestLines == 3

----------------------------------------------------------------------------
\* Helpers on sequences

Last(s) == s[Len(s)]

----------------------------------------------------------------------------
\* Ingestion (lines 348-411)

cutoff_time(n) == n - lookback

\* f"{message_id}:{request_id}" when both are truthy, else None (<<>>)
unique_hash(l) ==
    IF l.message_id # "" /\ l.request_id # ""
    THEN <<l.message_id \o ":" \o l.request_id>>
    ELSE <<>>

MakeEntry(l, i) ==
    [ timestamp     |-> l.ts,
      tz            |-> l.tz,
      input_tokens  |-> l.input_tokens,
      output_tokens |-> l.output_tokens,
      total_tokens  |-> l.input_tokens + l.output_tokens,
      message_id    |-> l.message_id,
      request_id    |-> IF l.request_id = "" THEN "unknown" ELSE l.request_id,
      file          |-> l.file,
      line          |-> i ]

\* json.loads succeeds, the record is an assistant record and its timestamp
\* parses to an aware datetime (anything else skips the line: 356-361, 405)
Readable(l) ==
    /\ l.json_ok
    /\ l.type = "assistant"
    /\ l.ts_form = "aware"

\* Variant: an event exactly at the cutoff is dropped
InWindow_Strict(l, n) == l.ts > cutoff_time(n)

InWindow(l, n) == l.ts >= cutoff_time(n)

\* Variant: no line is ever taken for a duplicate
AlreadyProcessed_Never(l, hashes) == FALSE

AlreadyProcessed(l, hashes) ==
    /\ unique_hash(l) # <<>>
    /\ unique_hash(l)[1] \in hashes

\* Variant: the zero-token check left out
HasTokens_AnyUsage(l) == l.has_usage

HasTokens(l) ==
    /\ l.has_usage
    /\ ~(l.input_tokens = 0 /\ l.output_tokens = 0)

\* Variant: a line that cannot be used ends the scan's collection so far
ProcessLine_LosesBatch(acc, l, i, n) ==
    IF ~Readable(l) THEN [entries |-> <<>>, hashes |-> {}]
    ELSE IF ~InWindow(l, n) THEN acc
    ELSE IF AlreadyProcessed(l, acc.hashes) THEN acc
    ELSE IF ~HasTokens(l) THEN acc
    ELSE [ entries |-> Append(acc.entries, MakeEntry(l, i)),
           hashes  |-> IF unique_hash(l) # <<>>
                       THEN acc.hashes \cup {unique_hash(l)[1]}
                       ELSE acc.hashes ]

\* One iteration of the loop over the lines; acc = [entries, hashes]
ProcessLine(acc, l, i, n) ==
    IF ~Readable(l) THEN acc
    ELSE IF ~InWindow(l, n) THEN acc
    ELSE IF AlreadyProcessed(l, acc.hashes) THEN acc
    ELSE IF ~HasTokens(l) THEN acc
    ELSE [ entries |-> Append(acc.entries, MakeEntry(l, i)),
           hashes  |-> IF unique_hash(l) # <<>>
                       THEN acc.hashes \cup {unique_hash(l)[1]}
                       ELSE acc.hashes ]

RECURSIVE ScanLines(_, _, _, _)
ScanLines(acc, lines, i, n) ==
    IF i > Len(lines) THEN acc
    ELSE ScanLines(ProcessLine(acc, lines[i], i, n), lines, i + 1, n)

LoadAll(lines, n) == ScanLines([entries |-> <<>>, hashes |-> {}], lines, 1, n)

----------------------------------------------------------------------------
\* Sort by timestamp (lines 413-414); list.sort is stable

RECURSIVE InsertByTimestamp(_, _)
InsertByTimestamp(s, e) ==
    IF s = <<>> THEN <<e>>
    ELSE IF Last(s).timestamp <= e.timestamp THEN Append(s, e)
    ELSE Append(InsertByTimestamp(SubSeq(s, 1, Len(s) - 1), e), Last(s))

RECURSIVE SortByTimestamp(_)
SortByTimestamp(s) ==
    IF s = <<>> THEN <<>>
    ELSE InsertByTimestamp(SortByTimestamp(SubSeq(s, 1, Len(s) - 1)), Last(s))

----------------------------------------------------------------------------
\* Block construction (lines 416-458).  current_block is <<>> (None) or <<b>>.

\* entry_time.replace(minute=0, second=0, microsecond=0), as an instant
HourFloor(e) == e.timestamp - ((e.timestamp + e.tz) % TicksPerHour)

\* Variant: the idle gap compared with > instead of >=
ShouldCreateNewBlock_StrictGap(current_block, entry) ==
    \/ current_block = <<>>
    \/ entry.timestamp >= current_block[1].end_time
    \/ /\ current_block[1].entries # <<>>
       /\ entry.timestamp - Last(current_block[1].entries).timestamp > session_gap

\* Variant: without the window clause
ShouldCreateNewBlock_NoWindow(current_block, entry) ==
    \/ current_block = <<>>
    \/ /\ current_block[1].entries # <<>>
       /\ entry.timestamp - Last(current_block[1].entries).timestamp >= session_gap

\* Variant: an idle gap of one hour already opens a new block
ShouldCreateNewBlock_HourGap(current_block, entry) ==
    \/ current_block = <<>>
    \/ entry.timestamp >= current_block[1].end_time
    \/ /\ current_block[1].entries # <<>>
       /\ entry.timestamp - Last(current_block[1].entries).timestamp >= TicksPerHour

ShouldCreateNewBlock(current_block, entry) ==
    \/ current_block = <<>>
    \/ entry.timestamp >= current_block[1].end_time
    \/ /\ current_block[1].entries # <<>>
       /\ entry.timestamp - Last(current_block[1].entries).timestamp >= session_gap

\* Variant: the block starts at the entry's own timestamp (no hour rounding)
NewBlock_NoRounding(entry) ==
    [ id           |-> [t |-> entry.timestamp, off |-> entry.tz],
      start_time   |-> entry.timestamp,
      end_time     |-> entry.timestamp + session_duration,
      entries      |-> <<>>,
      total_tokens |-> 0,
      is_active    |-> FALSE ]

NewBlock(entry) ==
    [ id           |-> [t |-> HourFloor(entry), off |-> entry.tz],
      start_time   |-> HourFloor(entry),
      end_time     |-> HourFloor(entry) + session_duration,
      entries      |-> <<>>,
      total_tokens |-> 0,
      is_active    |-> FALSE ]

\* Variant: only the input tokens are added to the block's total
AddEntry_InputOnly(b, entry) ==
    [b EXCEPT !.entries = Append(@, entry),
              !.total_tokens = @ + entry.input_tokens]

AddEntry(b, entry) ==
    [b EXCEPT !.entries = Append(@, entry),
              !.total_tokens = @ + entry.total_tokens]

\* Variant: actual_end_time set to the nominal end of the window
Finalized_NominalEnd(b) ==
    [ id              |-> b.id,
      start_time      |-> b.start_time,
      end_time        |-> b.end_time,
      entries         |-> b.entries,
      total_tokens    |-> b.total_tokens,
      is_active       |-> b.is_active,
      actual_end_time |-> b.end_time ]

\* "Finalize" a block: record actual_end_time and push it
Finalized(b) ==
    [ id              |-> b.id,
      start_time      |-> b.start_time,
      end_time        |-> b.end_time,
      entries         |-> b.entries,
      total_tokens    |-> b.total_tokens,
      is_active       |-> b.is_active,
      actual_end_time |-> Last(b.entries).timestamp ]

Finalize(blocks, current_block) ==
    IF current_block # <<>> /\ current_block[1].entries # <<>>
    THEN Append(blocks, Finalized(current_block[1]))
    ELSE blocks

\* Variant: the previous block is not pushed when a new one is opened
BuildStep_DropsBlock(st, entry) ==
    IF ShouldCreateNewBlock(st.current, entry)
    THEN [ blocks  |-> st.blocks,
           current |-> <<AddEntry(NewBlock(entry), entry)>> ]
    ELSE [ blocks  |-> st.blocks,
           current |-> <<AddEntry(st.current[1], entry)>> ]

\* One iteration of the loop over all_entries; st = [blocks, current]
BuildStep(st, entry) ==
    IF ShouldCreateNewBlock(st.current, entry)
    THEN [ blocks  |-> Finalize(st.blocks, st.current),
           current |-> <<AddEntry(NewBlock(entry), entry)>> ]
    ELSE [ blocks  |-> st.blocks,
           current |-> <<AddEntry(st.current[1], entry)>> ]

RECURSIVE BuildLoop(_, _, _)
BuildLoop(st, entries, i) ==
    IF i > Len(entries) THEN st
    ELSE BuildLoop(BuildStep(st, entries[i]), entries, i + 1)

TransformToBlocks(entries) ==
    LET st == BuildLoop([blocks |-> <<>>, current |-> <<>>], entries, 1)
    IN  Finalize(st.blocks, st.current)

----------------------------------------------------------------------------
\* Active marking (lines 460-467)

\* Variant: the recent-activity condition left out
IsActiveAt_NoRecency(block, n) ==
    /\ block.end_time > n
    /\ Len(block.entries) >= MinActiveEntries
    /\ block.entries # <<>>

\* Variant: the entry-count threshold off by one
IsActiveAt_TwoEntries(block, n) ==
    /\ block.end_time > n
    /\ Len(block.entries) >= MinActiveEntries - 1
    /\ block.entries # <<>>
    /\ (n - Last(block.entries).timestamp) * SecondsPerTick <= RecentSeconds

IsActiveAt(block, n) ==
    /\ block.end_time > n
    /\ Len(block.entries) >= MinActiveEntries
    /\ block.entries # <<>>
    /\ (n - Last(block.entries).timestamp) * SecondsPerTick <= RecentSeconds

MarkActive(blocks, n) ==
    [i \in 1..Len(blocks) |->
        IF IsActiveAt(blocks[i], n)
        THEN [blocks[i] EXCEPT !.is_active = TRUE]
        ELSE blocks[i]]

----------------------------------------------------------------------------
\* Selection and result (lines 469-497)

ActiveBlocks(blocks) == SelectSeq(blocks, LAMBDA b : b.is_active)

\* Variant: the first element is taken instead of the maximal one
MaxByStart_First(s) == s[1]

\* max(seq, key=start_time): the first element whose key is maximal
MaxByStart(s) ==
    LET i == CHOOSE i \in 1..Len(s) :
                /\ \A j \in 1..Len(s) : s[j].start_time <= s[i].start_time
                /\ \A j \in 1..(i - 1) : s[j].start_time < s[i].start_time
    IN  s[i]

\* %H and %M: two decimal digits
DecimalDigits == <<"0", "1", "2", "3", "4", "5", "6", "7", "8", "9">>
TwoDigits(n) == DecimalDigits[(n \div 10) + 1] \o DecimalDigits[(n % 10) + 1]

\* dt.astimezone().strftime('%H:%M') for a machine whose zone is off ticks
\* east of UTC
LocalHHMM(t, off) ==
    TwoDigits(((t + off) \div TicksPerHour) % 24)
        \o ":" \o TwoDigits(((t + off) % TicksPerHour) * MinutesPerTick)

\* Variant: the percentage capped at 100
ActiveResult_Capped(blocks, off) ==
    LET current_session == MaxByStart(ActiveBlocks(blocks))
    IN  [ reset_time     |-> LocalHHMM(current_session.end_time, off),
          cost_percent   |-> IF current_session.total_tokens > TokenBudget
                             THEN [num |-> 100, den |-> 1]
                             ELSE [num |-> current_session.total_tokens * 100,
                                   den |-> TokenBudget],
          tokens_used    |-> current_session.total_tokens,
          session_active |-> TRUE,
          block_id       |-> current_session.id,
          session_blocks |-> Len(blocks),
          approach       |-> "claude_monitor_exact" ]

\* cost_percent is a float; kept as the exact fraction num/den
ActiveResult(blocks, off) ==
    LET current_session == MaxByStart(ActiveBlocks(blocks))
    IN  [ reset_time     |-> LocalHHMM(current_session.end_time, off),
          cost_percent   |-> [num |-> current_session.total_tokens * 100,
                              den |-> TokenBudget],
          tokens_used    |-> current_session.total_tokens,
          session_active |-> TRUE,
          block_id       |-> current_session.id,
          session_blocks |-> Len(blocks),
          approach       |-> "claude_monitor_exact" ]

ExpiredResult(blocks) ==
    LET latest_block == MaxByStart(blocks)
    IN  [ reset_time     |-> "EXPIRED",
          cost_percent   |-> [num |-> 100, den |-> 1],
          tokens_used    |-> latest_block.total_tokens,
          session_active |-> FALSE,
          approach       |-> "claude_monitor_exact" ]

\* Variant: without the expired fallback
SessionResult_NoExpired(blocks, off) ==
    IF ActiveBlocks(blocks) # <<>> THEN ActiveResult(blocks, off)
    ELSE <<>>

SessionResult(blocks, off) ==
    IF ActiveBlocks(blocks) # <<>> THEN ActiveResult(blocks, off)
    ELSE IF blocks # <<>> THEN ExpiredResult(blocks)
    ELSE <<>>

\* The machine's zone offsets considered (whole hours and a half-hour zone)
LocalOffsets == {0, Step}

----------------------------------------------------------------------------
\* Inputs

AssistantLine(t, z, inp, out, mid, rid, f) ==
    [ json_ok       |-> TRUE,
      type          |-> "assistant",
      ts_form       |-> "aware",
      ts            |-> t,
      tz            |-> z,
      message_id    |-> mid,
      request_id    |-> rid,
      has_usage     |-> TRUE,
      input_tokens  |-> inp,
      output_tokens |-> out,
      file          |-> f ]

FirstFile == "a.jsonl"
SecondFile == "b.jsonl"

\* Offsets below one hour that timestamps carry: 'Z' and a half-hour zone
TzOffsets == {0, Step}

\* Chronological logs: the first event on the hour or half past, then steps
\* of nothing, half an hour, half an hour under the idle gap and exactly the
\* idle gap
Deltas == {0, Step, session_gap - Step, session_gap}
LongDeltas == {0, Step, session_gap}

RECURSIVE TimeSeqs(_, _)
TimeSeqs(n, deltas) ==
    IF n = 0 THEN {<<>>}
    ELSE IF n = 1 THEN {<<k * Step>> : k \in 0..(TicksPerHour \div Step - 1)}
    ELSE {Append(s, s[n - 1] + d) : s \in TimeSeqs(n - 1, deltas), d \in deltas}

\* Token counts alternate along the log, so that blocks differ in their totals
ChronoLogs(n, deltas, offsets) ==
    { [i \in 1..n |-> AssistantLine(ts[i], tzs[i], 1, i % 2, "", "", FirstFile)] :
        ts \in TimeSeqs(n, deltas), tzs \in [1..n -> offsets] }

Reverse(s) == [i \in 1..Len(s) |-> s[Len(s) + 1 - i]]

\* The shortest log that outlasts the 5-hour window without an idle gap
WindowLines ==
    ((session_duration + session_gap) \div Step - 2) \div (session_gap \div Step - 1)

\* The shortest log that fills two blocks with MinActiveEntries entries
TwoBlockLines == 2 * MinActiveEntries

\* Logs off the half-hour grid: MinActiveEntries events from one minute
\* before the hour, in steps of nothing, one minute and one minute under
\* the idle gap
EdgeDeltas == {0, 1, session_gap - 1}

RECURSIVE EdgeTimeSeqs(_)
EdgeTimeSeqs(n) ==
    IF n = 1 THEN {<<TicksPerHour - 1>>}
    ELSE {Append(s, s[n - 1] + d) : s \in EdgeTimeSeqs(n - 1), d \in EdgeDeltas}

EdgeLogs ==
    { [i \in 1..MinActiveEntries |->
          AssistantLine(ts[i], 0, 1, i % 2, "", "", FirstFile)] :
        ts \in EdgeTimeSeqs(MinActiveEntries) }

\* Logs of one burst whose total is over the token budget
HeavyLogs ==
    { [i \in 1..MinActiveEntries |->
          AssistantLine(t, 0, TokenBudget, i % 2, "", "", FirstFile)] :
        t \in {0, Step} }

\* Three events of 500 tokens at 10:15, 10:45 and 11:10 of the day instant 0
\* begins, evaluated at 11:12
ScenarioLog ==
    << AssistantLine(10 * TicksPerHour + 15, 0, 500, 0, "", "", FirstFile),
       AssistantLine(10 * TicksPerHour + 45, 0, 500, 0, "", "", FirstFile),
       AssistantLine(11 * TicksPerHour + 10, 0, 500, 0, "", "", FirstFile) >>
ScenarioNow == 11 * TicksPerHour + 12

\* Short logs with any offsets, in chronological and in reverse order;
\* chronological logs of WindowLines lines with any offsets; chronological
\* logs of one more line in UTC; longer chronological logs, up to
\* TwoBlockLines lines, in UTC with fewer steps; the logs off the grid, the
\* logs over the budget and the scenario
SpecLogs ==
    UNION ( {ChronoLogs(n, Deltas, TzOffsets) : n \in 0..MaxLines}
            \cup {{Reverse(l) : l \in ChronoLogs(n, Deltas, TzOffsets)} :
                       n \in 0..MaxLines}
            \cup {ChronoLogs(WindowLines, Deltas, TzOffsets)}
            \cup {ChronoLogs(WindowLines + 1, Deltas, {0})}
            \cup {ChronoLogs(n, LongDeltas, {0}) :
                       n \in (WindowLines + 2)..TwoBlockLines}
            \cup {EdgeLogs, HeavyLogs, {ScenarioLog}} )

NowSet ==
    {k * Step : k \in 0..((session_duration + 2 * TicksPerHour) \div Step)}
        \cup {ScenarioNow}

Init ==
    /\ log \in SpecLogs
    /\ now \in NowSet
    /\ pc = "load"
    /\ all_entries = <<>>
    /\ processed_hashes = {}
    /\ session_blocks = <<>>
    /\ result = <<>>
    /\ claude_reset = ""
    /\ cost_usage = ""
    /\ NewChatManager

----------------------------------------------------------------------------
\* The steps of get_claude_session_data_claude_monitor_exact

\* lines 344-411: scan every line; return {} when nothing was collected
LoadEntries ==
    /\ pc = "load"
    /\ LET acc == LoadAll(log, now)
       IN  /\ all_entries' = acc.entries
           /\ processed_hashes' = acc.hashes
           /\ pc' = IF acc.entries = <<>> THEN "done" ELSE "sort"
    /\ UNCHANGED <<log, now, session_blocks, result,
                   claude_reset, cost_usage, chatVars>>

\* lines 413-414
SortEntries ==
    /\ pc = "sort"
    /\ all_entries' = SortByTimestamp(all_entries)
    /\ pc' = "build"
    /\ UNCHANGED <<log, now, processed_hashes, session_blocks, result,
                   claude_reset, cost_usage, chatVars>>

\* lines 416-458
BuildBlocks ==
    /\ pc = "build"
    /\ session_blocks' = TransformToBlocks(all_entries)
    /\ pc' = "mark"
    /\ UNCHANGED <<log, now, all_entries, processed_hashes, result,
                   claude_reset, cost_usage, chatVars>>

\* lines 460-467
MarkActiveBlocks ==
    /\ pc = "mark"
    /\ session_blocks' = MarkActive(session_blocks, now)
    /\ pc' = "select"
    /\ UNCHANGED <<log, now, all_entries, processed_hashes, result,
                   claude_reset, cost_usage, chatVars>>

\* lines 469-497
SelectSession ==
    /\ pc = "select"
    /\ \E off \in LocalOffsets : result' = SessionResult(session_blocks, off)
    /\ pc' = "done"
    /\ UNCHANGED <<log, now, all_entries, processed_hashes, session_blocks,
                   claude_reset, cost_usage, chatVars>>

----------------------------------------------------------------------------
\* Logs of the ingestion specification: arbitrary order, dedup keys, zero
\* token counts, lines that are skipped, one or two files.  The run is taken
\* at IngestNow, so that instant 0 is exactly the lookback cutoff.

IngestNow == lookback

TokenPairs == {<<1, 0>>, <<1, 2>>, <<0, 0>>}

\* Usage events at the cutoff and half an hour before now, with and without
\* key
UsageLines ==
    { AssistantLine(t, 0, tk[1], tk[2], k[1], k[2], FirstFile) :
        t \in {0, IngestNow - Step},
        tk \in TokenPairs,
        k \in {<<"", "">>, <<"m1", "r1">>} }

\* Lines carrying the key m1:r1 that the scan skips (the sixth is one minute
\* older than the cutoff), and a line with a message id but no request id
OtherLines ==
    LET base == AssistantLine(IngestNow - Step, 0, 1, 0, "m1", "r1", FirstFile)
    IN  { [base EXCEPT !.json_ok = FALSE],
          [base EXCEPT !.type = "user"],
          [base EXCEPT !.ts_form = "missing"],
          [base EXCEPT !.ts_form = "invalid"],
          [base EXCEPT !.ts_form = "naive"],
          [base EXCEPT !.ts = -1],
          [base EXCEPT !.has_usage = FALSE],
          [base EXCEPT !.request_id = ""] }

IngestLines == UsageLines \cup OtherLines

\* The first `split` lines are in the first file, the others in the second
InFiles(lines, split) ==
    [i \in 1..Len(lines) |->
        [lines[i] EXCEPT !.file = IF i <= split THEN FirstFile ELSE SecondFile]]

InitIngest ==
    /\ \E n \in 0..MaxIngestLines :
         \E lines \in [1..n -> IngestLines] :
           \E split \in {1, n} :
             log = InFiles(lines, split)
    /\ now = IngestNow
    /\ pc = "load"
    /\ all_entries = <<>>
    /\ processed_hashes = {}
    /\ session_blocks = <<>>
    /\ result = <<>>
    /\ claude_reset = ""
    /\ cost_usage = ""
    /\ NewChatManager

Next ==
    \/ LoadEntries
    \/ SortEntries
    \/ BuildBlocks
    \/ MarkActiveBlocks
    \/ SelectSession

Spec == Init /\ [][Next]_vars

SpecIngest == InitIngest /\ [][Next]_vars

----------------------------------------------------------------------------
\* Stages of one run

Built  == pc \in {"mark", "select", "done"}
Marked == pc \in {"select", "done"}
Done   == pc = "done"

BlockIndexes == 1..Len(session_blocks)

\* (block, position) pairs of all entries held by the blocks
Slots ==
    UNION { {<<i, j>> : j \in 1..Len(session_blocks[i].entries)} :
              i \in BlockIndexes }

SlotsOf(e) == {p \in Slots : session_blocks[p[1]].entries[p[2]] = e}

ActiveIndexes == {i \in BlockIndexes : session_blocks[i].is_active}

\* A later block was opened by the window clause alone (its first entry is
\* at or after the end of the block before it, less than the idle gap after
\* that block's last entry)
OpenedByWindow(i) ==
    /\ i > 1
    /\ session_blocks[i].entries[1].timestamp >= session_blocks[i - 1].end_time
    /\ session_blocks[i].entries[1].timestamp
         - Last(session_blocks[i - 1].entries).timestamp < session_gap

\* A later block was opened by the idle-gap clause alone
OpenedByGap(i) ==
    /\ i > 1
    /\ session_blocks[i].entries[1].timestamp < session_blocks[i - 1].end_time
    /\ session_blocks[i].entries[1].timestamp
         - Last(session_blocks[i - 1].entries).timestamp >= session_gap

----------------------------------------------------------------------------
\* C1: once the blocks are built, every ingested event is held by exactly
\* one block, at exactly one position, and its timestamp t satisfies
\* start_time <= t < end_time of that block.
C1_EventInExactlyOneBlock ==
    Built =>
        \A k \in 1..Len(all_entries) :
            /\ Cardinality(SlotsOf(all_entries[k])) = 1
            /\ \A p \in SlotsOf(all_entries[k]) :
                  /\ session_blocks[p[1]].start_time <= all_entries[k].timestamp
                  /\ all_entries[k].timestamp < session_blocks[p[1]].end_time

\* C1 witness: a four-event log split into blocks, one of them opened by
\* the window clause, one of them holding several events
C1_Witness ==
    /\ Done
    /\ Len(all_entries) = 4
    /\ \E i \in BlockIndexes : OpenedByWindow(i)
    /\ \E i \in BlockIndexes : Len(session_blocks[i].entries) >= 2

\* C2 (as claimed): for any two distinct blocks the intervals
\* [start_time, end_time) do not intersect.
C2_NominalIntervalsDisjoint ==
    Built =>
        \A i, j \in BlockIndexes :
            i # j =>
                \/ session_blocks[i].end_time <= session_blocks[j].start_time
                \/ session_blocks[j].end_time <= session_blocks[i].start_time

\* C2 (amended): the blocks do not overlap in the spans their entries
\* occupy: for two distinct blocks the intervals
\* [first entry's timestamp, actual_end_time] do not intersect.
C2_OccupiedSpansDisjoint ==
    Built =>
        \A i, j \in BlockIndexes :
            i # j =>
                \/ session_blocks[i].actual_end_time
                     < session_blocks[j].entries[1].timestamp
                \/ session_blocks[j].actual_end_time
                     < session_blocks[i].entries[1].timestamp

\* C2 witness: a block closed early by the idle gap, whose nominal window
\* reaches into the next block
C2_Witness ==
    /\ Done
    /\ \E i \in BlockIndexes :
          /\ OpenedByGap(i)
          /\ session_blocks[i].start_time < session_blocks[i - 1].end_time

\* C3 (as claimed): after the marking pass at most one block is active.
C3_AtMostOneActive ==
    Marked => Cardinality(ActiveIndexes) <= 1

\* C3 (amended): after the marking pass at most one active block holds an
\* event that is not later than now (a second active block lies wholly after
\* now); so a log without events later than now has zero or one active block.
C3_AtMostOneActiveNotInFuture ==
    Marked =>
        Cardinality({i \in ActiveIndexes :
                        session_blocks[i].entries[1].timestamp <= now}) <= 1

\* C3 witness: two active blocks, the earlier one with events up to now
C3_Witness ==
    /\ Done
    /\ Cardinality(ActiveIndexes) = 2
    /\ \E i \in ActiveIndexes : session_blocks[i].entries[1].timestamp <= now

----------------------------------------------------------------------------
\* Distance in time between two instants
Distance(a, b) == IF a >= b THEN a - b ELSE b - a

----------------------------------------------------------------------------
\* The three outcomes, as the callers tell them apart (lines 505-516, 521-529)
Outcome(r) ==
    IF r = <<>> THEN "no_data"
    ELSE IF r.reset_time = "EXPIRED" THEN "expired"
    ELSE "active"

HHMMStrings ==
    {TwoDigits(hh) \o ":" \o TwoDigits(mm) : hh \in 0..23, mm \in 0..59}

IsHHMM(x) == x \in HHMMStrings

\* C5: the outcome is 'active' (session_active true, an HH:MM reset_time)
\* iff some block is active, 'expired' (reset_time EXPIRED, session_active
\* false) iff blocks exist and none is active, and the empty result iff no
\* block was built; a log whose only block ended at or before now is
\* reported expired with that block's total.
C5_OutcomeDecidedByBlocks ==
    Done =>
        /\ Outcome(result) = "active" <=> ActiveIndexes # {}
        /\ Outcome(result) = "expired" <=>
              (BlockIndexes # {} /\ ActiveIndexes = {})
        /\ result = <<>> <=> BlockIndexes = {}
        /\ Outcome(result) = "active" =>
              (result.session_active /\ IsHHMM(result.reset_time))
        /\ Outcome(result) = "expired" => ~result.session_active
        /\ (Len(session_blocks) = 1 /\ session_blocks[1].end_time <= now) =>
              /\ Outcome(result) = "expired"
              /\ result.tokens_used = session_blocks[1].total_tokens

\* C5 witness: a single block that ended at or before now, reported expired
C5_Witness ==
    /\ Done
    /\ Len(session_blocks) = 1
    /\ session_blocks[1].end_time <= now
    /\ Outcome(result) = "expired"

\* The blocks of a set of indexes that start latest
LatestOf(idx) ==
    {i \in idx : \A j \in idx :
        session_blocks[j].start_time <= session_blocks[i].start_time}

\* C6: with several active blocks the reported block (tokens_used,
\* reset_time, block_id) is the active block with the latest start_time;
\* with blocks but no active one, tokens_used is the total of the block with
\* the latest start_time.
C6_LatestBlockReported ==
    Done =>
        /\ Cardinality(ActiveIndexes) >= 2 =>
              \E i \in LatestOf(ActiveIndexes) :
                  /\ result.tokens_used = session_blocks[i].total_tokens
                  /\ result.block_id = session_blocks[i].id
                  /\ \E off \in LocalOffsets :
                        result.reset_time =
                            LocalHHMM(session_blocks[i].end_time, off)
        /\ (ActiveIndexes = {} /\ BlockIndexes # {}) =>
              \E i \in LatestOf(BlockIndexes) :
                  result.tokens_used = session_blocks[i].total_tokens

\* C6 witness: two active blocks with different totals
C6_Witness ==
    /\ Done
    /\ \E i, j \in ActiveIndexes :
          /\ i # j
          /\ session_blocks[i].total_tokens # session_blocks[j].total_tokens

\* C6 second witness case: several blocks with different totals, none active
C6_WitnessExpired ==
    /\ Done
    /\ ActiveIndexes = {}
    /\ \E i, j \in BlockIndexes :
          session_blocks[i].total_tokens # session_blocks[j].total_tokens

----------------------------------------------------------------------------
\* Index of the block holding an entry of all_entries
BlockOf(k) == (CHOOSE p \in SlotsOf(all_entries[k]) : TRUE)[1]

\* C7: two events consecutive in timestamp order and at least 2 hours apart
\* are never in the same block, also when the later one is before the
\* earlier one's block end_time; two consecutive events of one block are
\* less than 2 hours apart.
C7_IdleGapSplits ==
    Built =>
        /\ \A k \in 1..(Len(all_entries) - 1) :
              all_entries[k + 1].timestamp - all_entries[k].timestamp
                  >= 2 * TicksPerHour
              => BlockOf(k) # BlockOf(k + 1)
        /\ \A i \in BlockIndexes :
              \A j \in 1..(Len(session_blocks[i].entries) - 1) :
                  session_blocks[i].entries[j + 1].timestamp
                      - session_blocks[i].entries[j].timestamp
                  < 2 * TicksPerHour

\* C7 witness: an event 2 hours after the one before it, still before that
\* one's block end_time, opens the second block
C7_Witness ==
    /\ Done
    /\ Len(session_blocks) >= 2
    /\ OpenedByGap(2)
    /\ session_blocks[2].entries[1].timestamp
         - Last(session_blocks[1].entries).timestamp = 2 * TicksPerHour

\* C8: every block's start_time is its first entry's timestamp truncated
\* down to the start of its hour (on the clock of the timestamp's own UTC
\* offset), and its end_time is start_time + 5 hours.
C8_StartTruncatedEndFiveHours ==
    Built =>
        \A i \in BlockIndexes :
            LET first == session_blocks[i].entries[1]
                start == session_blocks[i].start_time
            IN  /\ start <= first.timestamp
                /\ first.timestamp - start < TicksPerHour
                /\ (start + first.tz) % TicksPerHour = 0
                /\ session_blocks[i].end_time = start + 5 * TicksPerHour

\* C8 witness: a block whose first entry is not on the hour
C8_Witness ==
    /\ Done
    /\ \E i \in BlockIndexes :
          session_blocks[i].start_time
              < session_blocks[i].entries[1].timestamp

----------------------------------------------------------------------------
\* Ingestion claims (checked under SpecIngest)

Loaded == pc # "load"

LineIndexes == 1..Len(log)

\* The line carries a dedup key: message id and request id both present
HasKey(i) == log[i].message_id # "" /\ log[i].request_id # ""

SameKey(i, j) ==
    /\ HasKey(i)
    /\ HasKey(j)
    /\ log[i].message_id = log[j].message_id
    /\ log[i].request_id = log[j].request_id

\* The line is a usage event of the lookback window: a JSON assistant record
\* with a timezone-aware timestamp at or after now - 192 h and a usage object
IsEvent(i) ==
    /\ log[i].json_ok
    /\ log[i].type = "assistant"
    /\ log[i].ts_form = "aware"
    /\ log[i].ts >= now - 192 * TicksPerHour
    /\ log[i].has_usage

NonZero(i) == log[i].input_tokens + log[i].output_tokens > 0

\* The line contributes to the blocks: an entry made from it is in all_entries
Contributes(i) == \E k \in 1..Len(all_entries) : all_entries[k].line = i

\* C9 (as claimed): of the events with one dedup key at most one contributes,
\* and it is the first event with that key in scan order, whatever the token
\* counts; every later event with that key is dropped.
C9_FirstEncounteredWins ==
    Loaded =>
        \A i \in LineIndexes :
            (IsEvent(i) /\ HasKey(i)) =>
                /\ Cardinality({j \in LineIndexes :
                                   SameKey(i, j) /\ Contributes(j)}) <= 1
                /\ (\E j \in 1..(i - 1) : IsEvent(j) /\ SameKey(i, j))
                       => ~Contributes(i)

\* C9 (amended): of the lines with one dedup key at most one contributes,
\* and it is the first one in scan order that is an event of the lookback
\* window whose token counts are not both zero; every later line with that
\* key is dropped, and an event with zero tokens does not claim the key.
C9_FirstNonZeroWins ==
    Loaded =>
        \A i \in LineIndexes :
            HasKey(i) =>
                /\ Cardinality({j \in LineIndexes :
                                   SameKey(i, j) /\ Contributes(j)}) <= 1
                /\ Contributes(i) <=>
                      /\ IsEvent(i)
                      /\ NonZero(i)
                      /\ ~\E j \in 1..(i - 1) :
                             IsEvent(j) /\ SameKey(i, j) /\ NonZero(j)

\* C9 witness: a key seen three times; its first event has zero tokens, the
\* second contributes, the third is dropped
C9_Witness ==
    /\ Done
    /\ Len(log) = 3
    /\ \A i \in LineIndexes : IsEvent(i) /\ SameKey(1, i)
    /\ ~NonZero(1) /\ NonZero(2) /\ NonZero(3)
    /\ Contributes(2)
    /\ ~Contributes(3)

----------------------------------------------------------------------------
\* One whole run on a log, up to the marked blocks
BlocksOfRun(lines, n) ==
    MarkActive(TransformToBlocks(SortByTimestamp(LoadAll(lines, n).entries)), n)

\* What an entry says, without the place it was read from
EntryContent(e) ==
    [ timestamp     |-> e.timestamp,
      tz            |-> e.tz,
      input_tokens  |-> e.input_tokens,
      output_tokens |-> e.output_tokens,
      total_tokens  |-> e.total_tokens,
      message_id    |-> e.message_id,
      request_id    |-> e.request_id ]

\* How often each content occurs among the entries of a block
ContentCounts(b) ==
    [c \in {EntryContent(b.entries[k]) : k \in 1..Len(b.entries)} |->
        Cardinality({k \in 1..Len(b.entries) : EntryContent(b.entries[k]) = c})]

BlockView(b) ==
    [ id           |-> b.id,
      start_time   |-> b.start_time,
      end_time     |-> b.end_time,
      total_tokens |-> b.total_tokens,
      is_active    |-> b.is_active,
      last         |-> b.actual_end_time,
      entries      |-> ContentCounts(b) ]

SameBlocks(bs1, bs2) ==
    /\ Len(bs1) = Len(bs2)
    /\ \A i \in 1..Len(bs1) : BlockView(bs1[i]) = BlockView(bs2[i])

RemoveAt(lines, i) ==
    [k \in 1..(Len(lines) - 1) |-> IF k < i THEN lines[k] ELSE lines[k + 1]]

\* Lines i and j hold the same event: equal in everything but the file
SameEvent(i, j) ==
    [log[i] EXCEPT !.file = FirstFile] = [log[j] EXCEPT !.file = FirstFile]

\* The key of line i is carried by that one event only
KeyNamesOneEvent(i) == \A k \in LineIndexes : SameKey(i, k) => SameEvent(i, k)

\* C10: when an event carrying a dedup key appears twice in the log, the
\* run yields the same blocks, with the same totals, as the run on the log
\* holding that event once: the log without the second copy, and, when no
\* other event carries that key, also the log without the first copy.
C10_DedupIdempotence ==
    Done =>
        \A i, j \in LineIndexes :
            (i < j /\ IsEvent(i) /\ HasKey(i) /\ SameEvent(i, j)) =>
                /\ SameBlocks(session_blocks, BlocksOfRun(RemoveAt(log, j), now))
                /\ KeyNamesOneEvent(i) =>
                      SameBlocks(session_blocks,
                                 BlocksOfRun(RemoveAt(log, i), now))

\* The stricter reading, either copy removed whatever else carries the key,
\* does not hold: in [A, B, A] with one key on all three lines and other
\* token counts in B, A is counted, and without the first A, B is counted.
C10_EitherCopyRemoved ==
    Done =>
        \A i, j \in LineIndexes :
            (i < j /\ IsEvent(i) /\ HasKey(i) /\ SameEvent(i, j)) =>
                SameBlocks(session_blocks, BlocksOfRun(RemoveAt(log, i), now))

\* C10 witness: an event with tokens and a key read from two files, beside
\* another event, with blocks built
C10_Witness ==
    /\ Done
    /\ session_blocks # <<>>
    /\ Len(all_entries) = 2
    /\ \E i, j \in LineIndexes :
          /\ i < j
          /\ IsEvent(i) /\ HasKey(i) /\ NonZero(i)
          /\ SameEvent(i, j)
          /\ log[i].file # log[j].file

----------------------------------------------------------------------------
\* Entries held by the blocks
BlockEntries == {session_blocks[p[1]].entries[p[2]] : p \in Slots}

ZeroTokens(i) == log[i].input_tokens = 0 /\ log[i].output_tokens = 0

\* C11: an event with input_tokens = 0 and output_tokens = 0 is never an
\* entry of a block and adds nothing to a total, and it never opens or
\* splits a block: the blocks are those of the log without that event.
C11_ZeroTokenEventsLeaveNoTrace ==
    /\ Loaded =>
          /\ \A i \in LineIndexes : ZeroTokens(i) => ~Contributes(i)
          /\ \A k \in 1..Len(all_entries) :
                ~(all_entries[k].input_tokens = 0
                    /\ all_entries[k].output_tokens = 0)
    /\ Done =>
          /\ \A e \in BlockEntries :
                ~(e.input_tokens = 0 /\ e.output_tokens = 0)
          /\ \A i \in LineIndexes :
                (IsEvent(i) /\ ZeroTokens(i)) =>
                    SameBlocks(session_blocks,
                               BlocksOfRun(RemoveAt(log, i), now))

\* C11 witness: a zero-token event at the cutoff, hours before the other
\* events of the log, which are all in one block
C11_Witness ==
    /\ Done
    /\ Len(session_blocks) = 1
    /\ Len(all_entries) = 2
    /\ \E i \in LineIndexes :
          /\ IsEvent(i) /\ ZeroTokens(i)
          /\ \A k \in 1..Len(all_entries) :
                all_entries[k].timestamp - log[i].ts >= session_duration

----------------------------------------------------------------------------
\* C12: an event is ingested only if its timestamp is at or after
\* now - 192 hours: no entry and no block entry is older than that, a line
\* older than the cutoff contributes nothing, and an event at or after the
\* cutoff whose token counts are not both zero contributes unless an
\* earlier contributing line carries its dedup key.
C12_LookbackFilter ==
    Loaded =>
        /\ \A k \in 1..Len(all_entries) :
              all_entries[k].timestamp >= now - 192 * TicksPerHour
        /\ \A e \in BlockEntries : e.timestamp >= now - 192 * TicksPerHour
        /\ \A i \in LineIndexes :
              log[i].ts < now - 192 * TicksPerHour => ~Contributes(i)
        /\ \A i \in LineIndexes :
              (IsEvent(i) /\ NonZero(i)
                 /\ ~\E j \in 1..(i - 1) : SameKey(i, j) /\ Contributes(j))
              => Contributes(i)

\* C12 witness: an event exactly at the cutoff that contributes, beside a
\* line one minute older that does not
C12_Witness ==
    /\ Done
    /\ \E i, j \in LineIndexes :
          /\ log[i].ts = now - 192 * TicksPerHour
          /\ Contributes(i)
          /\ log[j].ts = now - 192 * TicksPerHour - 1
          /\ log[j].json_ok /\ log[j].type = "assistant"
          /\ log[j].ts_form = "aware" /\ log[j].has_usage /\ NonZero(j)
          /\ ~Contributes(j)

----------------------------------------------------------------------------
\* Fractions in lowest terms
RECURSIVE GCD(_, _)
GCD(a, b) == IF b = 0 THEN a ELSE GCD(b, a % b)

Reduced(p) ==
    [num |-> p.num \div GCD(p.num, p.den), den |-> p.den \div GCD(p.num, p.den)]

\* The fraction num/den equals tokens / 88000 expressed as a percentage
IsPercentOfBudget(p, tokens) ==
    Reduced(p) = Reduced([num |-> tokens * 100, den |-> 88000])

\* The block the result reports: the latest active one, or the latest one
ReportedIndexes ==
    IF ActiveIndexes # {} THEN LatestOf(ActiveIndexes) ELSE LatestOf(BlockIndexes)

\* C13 (as claimed): for the returned block, active or expired, cost_percent
\* equals block.total_tokens / 88000 as a percentage, uncapped.
C13_PercentOfBudgetAnyOutcome ==
    (Done /\ result # <<>>) =>
        \E i \in ReportedIndexes :
            IsPercentOfBudget(result.cost_percent, session_blocks[i].total_tokens)

\* C13 (amended): for an active outcome cost_percent equals the reported
\* block's total_tokens / 88000 as a percentage, uncapped; for an expired
\* outcome cost_percent is 100 whatever the block's total, which tokens_used
\* still reports.
C13_PercentOfBudgetWhenActive ==
    (Done /\ result # <<>>) =>
        \E i \in ReportedIndexes :
            /\ result.tokens_used = session_blocks[i].total_tokens
            /\ Outcome(result) = "active" =>
                  IsPercentOfBudget(result.cost_percent,
                                    session_blocks[i].total_tokens)
            /\ Outcome(result) = "expired" =>
                  result.cost_percent.num = 100 * result.cost_percent.den

\* C13 witness: an active block over the budget, reported with more than
\* 100 percent
C13_Witness ==
    /\ Done
    /\ Outcome(result) = "active"
    /\ result.tokens_used > 88000
    /\ result.cost_percent.num > 100 * result.cost_percent.den

----------------------------------------------------------------------------
\* A line that fails by itself: malformed JSON, a record that is not an
\* assistant record, a record without timestamp or without usage, a
\* timestamp that does not parse
Unusable(l) ==
    \/ ~l.json_ok
    \/ l.type # "assistant"
    \/ l.ts_form \in {"missing", "invalid"}
    \/ ~l.has_usage

Usable(l) == ~Unusable(l)

\* The results a run can return for its blocks (one per zone of the machine)
ResultsOfBlocks(blocks) == {SessionResult(blocks, off) : off \in LocalOffsets}

\* The results one run can return for a log
ResultsOfRun(lines, n) == ResultsOfBlocks(BlocksOfRun(lines, n))

\* C14: a malformed line, a record with missing fields, a non-assistant
\* record and a record with an unparseable timestamp are each skipped by
\* themselves: they contribute nothing, and the blocks and the result of the
\* run are those of the log with such lines removed, one by one or all
\* together; the run ends with one of the three outcomes.
C14_UnusableLinesSkippedAlone ==
    Done =>
        /\ \A i \in LineIndexes :
              Unusable(log[i]) =>
                  LET others == BlocksOfRun(RemoveAt(log, i), now)
                  IN  /\ ~Contributes(i)
                      /\ SameBlocks(session_blocks, others)
                      /\ result \in ResultsOfBlocks(others)
        /\ LET usable == BlocksOfRun(SelectSeq(log, Usable), now)
           IN  /\ SameBlocks(session_blocks, usable)
               /\ result \in ResultsOfBlocks(usable)
        /\ Outcome(result) \in {"active", "expired", "no_data"}

\* C14 witness: a malformed line between two events that both contribute
C14_Witness ==
    /\ Done
    /\ Outcome(result) = "expired"
    /\ \E i, j, k \in LineIndexes :
          /\ i < j /\ j < k
          /\ Contributes(i)
          /\ ~log[j].json_ok
          /\ Contributes(k)

----------------------------------------------------------------------------
\* The log with lines i and j exchanged (exchanges generate every order)
Swap(lines, i, j) ==
    [k \in 1..Len(lines) |->
        IF k = i THEN lines[j] ELSE IF k = j THEN lines[i] ELSE lines[k]]

\* What the claim compares of a block: its times, its entries as a
\* collection, its total
OrderView(b) ==
    [ start_time   |-> b.start_time,
      end_time     |-> b.end_time,
      total_tokens |-> b.total_tokens,
      entries      |-> ContentCounts(b) ]

SameOrderViews(bs1, bs2) ==
    /\ Len(bs1) = Len(bs2)
    /\ \A i \in 1..Len(bs1) : OrderView(bs1[i]) = OrderView(bs2[i])

\* What the claim compares of a result: the outcome and the tokens reported
SelectionView(r) ==
    IF r = <<>> THEN <<"no_data">> ELSE <<Outcome(r), r.tokens_used>>

NoDedupKeys == \A i \in LineIndexes : ~HasKey(i)

\* C15 (as claimed): when no two events share a dedup key, the blocks
\* (start and end times, entries, totals) and the outcome are the same for
\* every order of the lines, events with equal timestamps included.
C15_OrderIndependent ==
    (Done /\ NoDedupKeys) =>
        \A i, j \in LineIndexes :
            i < j =>
                /\ SameOrderViews(session_blocks,
                                  BlocksOfRun(Swap(log, i, j), now))
                /\ \A r \in ResultsOfRun(Swap(log, i, j), now) :
                      SelectionView(r) = SelectionView(result)

\* C15, restricted to logs in which events with equal timestamps carry the
\* same UTC offset: this much holds.
C15_OrderIndependentSameOffsets ==
    (Done /\ NoDedupKeys
          /\ \A i, j \in LineIndexes :
                log[i].ts = log[j].ts => log[i].tz = log[j].tz) =>
        \A i, j \in LineIndexes :
            i < j =>
                /\ SameOrderViews(session_blocks,
                                  BlocksOfRun(Swap(log, i, j), now))
                /\ \A r \in ResultsOfRun(Swap(log, i, j), now) :
                      SelectionView(r) = SelectionView(result)

----------------------------------------------------------------------------
\* Sum of input_tokens + output_tokens over a sequence of entries or lines
RECURSIVE SumInOut(_)
SumInOut(es) ==
    IF es = <<>> THEN 0
    ELSE es[1].input_tokens + es[1].output_tokens + SumInOut(Tail(es))

RECURSIVE SumTotals(_)
SumTotals(bs) ==
    IF bs = <<>> THEN 0 ELSE bs[1].total_tokens + SumTotals(Tail(bs))

\* C16: every block's total_tokens is the sum over its entries of
\* input_tokens + output_tokens (each entry's total_tokens being that sum),
\* and the totals of all blocks add up to the sum over all ingested events.
C16_TotalsAreSums ==
    Built =>
        /\ \A i \in BlockIndexes :
              /\ session_blocks[i].total_tokens
                    = SumInOut(session_blocks[i].entries)
              /\ \A j \in 1..Len(session_blocks[i].entries) :
                    session_blocks[i].entries[j].total_tokens
                      = session_blocks[i].entries[j].input_tokens
                          + session_blocks[i].entries[j].output_tokens
        /\ SumTotals(session_blocks) = SumInOut(all_entries)

\* C16 witness: two blocks of several entries each, with different totals,
\* entries with output tokens among them
C16_Witness ==
    /\ Done
    /\ \E i, j \in BlockIndexes :
          /\ Len(session_blocks[i].entries) >= 2
          /\ Len(session_blocks[j].entries) >= 2
          /\ session_blocks[i].total_tokens # session_blocks[j].total_tokens
          /\ \E k \in 1..Len(session_blocks[i].entries) :
                session_blocks[i].entries[k].output_tokens > 0

----------------------------------------------------------------------------
\* Block construction with only some of the clauses "window" and "gap"
ShouldCreateBy(clauses, current_block, entry) ==
    \/ current_block = <<>>
    \/ /\ "window" \in clauses
       /\ entry.timestamp >= current_block[1].end_time
    \/ /\ "gap" \in clauses
       /\ current_block[1].entries # <<>>
       /\ entry.timestamp - Last(current_block[1].entries).timestamp
            >= 2 * TicksPerHour

RECURSIVE BuildLoopBy(_, _, _, _)
BuildLoopBy(clauses, st, entries, i) ==
    IF i > Len(entries) THEN st
    ELSE BuildLoopBy(clauses,
                     IF ShouldCreateBy(clauses, st.current, entries[i])
                     THEN [ blocks  |-> Finalize(st.blocks, st.current),
                            current |-> <<AddEntry(NewBlock(entries[i]),
                                                   entries[i])>> ]
                     ELSE [ blocks  |-> st.blocks,
                            current |-> <<AddEntry(st.current[1], entries[i])>> ],
                     entries, i + 1)

BlocksBy(clauses, entries) ==
    LET st == BuildLoopBy(clauses, [blocks |-> <<>>, current |-> <<>>],
                          entries, 1)
    IN  Finalize(st.blocks, st.current)

\* C17: a new block is opened exactly when the window clause or the idle-gap
\* clause holds for the next event, and neither clause can be dropped: a log
\* with a block opened by the window clause alone (every gap under 2 hours)
\* gets other blocks without the window clause, and a log with a block
\* opened by the gap clause alone (the event before the current end_time)
\* gets other blocks without the gap clause.
C17_BothClausesNeeded ==
    Built =>
        /\ \A k \in 1..(Len(all_entries) - 1) :
              BlockOf(k) # BlockOf(k + 1) <=>
                  \/ all_entries[k + 1].timestamp
                       >= session_blocks[BlockOf(k)].end_time
                  \/ all_entries[k + 1].timestamp - all_entries[k].timestamp
                       >= 2 * TicksPerHour
        /\ (\E i \in BlockIndexes : OpenedByWindow(i)) =>
              ~SameOrderViews(session_blocks, BlocksBy({"gap"}, all_entries))
        /\ (\E i \in BlockIndexes : OpenedByGap(i)) =>
              ~SameOrderViews(session_blocks, BlocksBy({"window"}, all_entries))

\* C17 witness: one log with a block opened by the gap clause alone and a
\* block opened by the window clause alone
C17_Witness ==
    /\ Done
    /\ \E i \in BlockIndexes : OpenedByGap(i)
    /\ \E i \in BlockIndexes : OpenedByWindow(i)

----------------------------------------------------------------------------
\* Minutes after 2024-01-01T00:00Z (instant 0) of a time of that day
ClockTime(hh, mm) == ((hh * 60 + mm) * 60) \div SecondsPerTick

\* The log holds events of 500 tokens at 10:15Z, 10:45Z and 11:10Z, and the
\* run is taken at 11:12Z
IsScenario ==
    /\ now = ClockTime(11, 12)
    /\ Len(log) = 3
    /\ {log[i].ts : i \in LineIndexes}
          = {ClockTime(10, 15), ClockTime(10, 45), ClockTime(11, 10)}
    /\ \A i \in LineIndexes :
          /\ IsEvent(i)
          /\ log[i].tz = 0
          /\ log[i].input_tokens + log[i].output_tokens = 500

\* C18: events at 10:15Z, 10:45Z and 11:10Z with 500 tokens each, evaluated
\* at 11:12Z, give exactly one block with start_time 10:00Z, end_time
\* 15:00Z, total_tokens 1500 and is_active true, and the outcome is active.
C18_ConcreteScenario ==
    IsScenario =>
        /\ Built =>
              /\ Len(session_blocks) = 1
              /\ session_blocks[1].start_time = ClockTime(10, 0)
              /\ session_blocks[1].end_time = ClockTime(15, 0)
              /\ session_blocks[1].total_tokens = 1500
              /\ Len(session_blocks[1].entries) = 3
        /\ Marked => session_blocks[1].is_active
        /\ Done =>
              /\ Outcome(result) = "active"
              /\ result.session_active
              /\ result.tokens_used = 1500
              /\ result.reset_time \in {"15:00", "15:30"}

\* C18 witness: the scenario, run to its end
C18_Witness ==
    /\ IsScenario
    /\ Done
    /\ result # <<>>

----------------------------------------------------------------------------
\* The streaming and connection part of ChatManager
\* (webui/services/chat_manager.py, models in webui/models/chat.py)

\* ChatMessage.content: Field(max_length=50000), checked on every assignment
MaxContentLength == 50000

\* Bounds of the explored calls: client ids drawn, characters of a short
\* content
MaxClients == 2
MaxTextLen == 2

\* A str is kept as a run of PadChar followed by the rest of its characters,
\* which does not begin with PadChar
PadChar == "a"
Chars == {"a", "b"}

EmptyStr == [pad |-> 0, text |-> <<>>]

\* len(s)
StrLen(s) == s.pad + Len(s.text)

\* s[i - 1]: the i-th character of s
CharAt(s, i) == IF i <= s.pad THEN PadChar ELSE s.text[i - s.pad]

\* s + ch
StrAppend(s, ch) ==
    IF s.text = <<>> /\ ch = PadChar
    THEN [s EXCEPT !.pad = @ + 1]
    ELSE [s EXCEPT !.text = Append(@, ch)]

\* s.startswith(p)
IsPrefix(p, s) ==
    \/ p.text = <<>> /\ p.pad <= s.pad
    \/ /\ p.pad = s.pad
       /\ Len(p.text) <= Len(s.text)
       /\ \A i \in 1..Len(p.text) : p.text[i] = s.text[i]

\* The strings of at most n characters
Texts(n) ==
    { s \in UNION { {[pad |-> p, text |-> t] : t \in [1..k -> Chars]} :
                      p \in 0..n, k \in 0..n } :
        /\ StrLen(s) <= n
        /\ s.text = <<>> \/ s.text[1] # PadChar }

\* dict operations
Put(d, k, v) == [x \in DOMAIN d \cup {k} |-> IF x = k THEN v ELSE d[x]]
Drop(d, k) == [x \in DOMAIN d \ {k} |-> d[x]]

\* None
NoState == 0
NoClient == 0

\* ChatMessage(content="", message_type=ASSISTANT, status=STREAMING)
NewMessage == [content |-> EmptyStr, status |-> "streaming"]

\* StreamingState(..., status=THINKING, total_characters=len(message_content),
\* is_active=True); characters_sent and connected_clients take their defaults
NewStreamingState(session_id, m, message_content) ==
    [ session_id        |-> session_id,
      message_id        |-> m,
      status            |-> "thinking",
      characters_sent   |-> 0,
      total_characters  |-> StrLen(message_content),
      is_active         |-> TRUE,
      connected_clients |-> <<>> ]

\* The task made by asyncio.create_task(_stream_message_content(...)): its
\* arguments, its locals, the await it is suspended at ("done" when it has
\* ended), and whether Task.cancel() was called on it
NewTask(session_id, message_content, typing_speed_wpm) ==
    [ session_id       |-> session_id,
      full_content     |-> message_content,
      typing_speed_wpm |-> typing_speed_wpm,
      streaming_state  |-> NoState,
      current_content  |-> EmptyStr,
      i                |-> 0,
      pc               |-> "created",
      must_cancel      |-> FALSE ]

\* ConnectionState(client_id, session_id, ...): is_active and reconnect_count
\* take their defaults
NewConnectionState(session_id) ==
    [session_id |-> session_id, is_active |-> TRUE, reconnect_count |-> 0]

\* Some client with a websocket is subscribed to the session: the broadcasts
\* create send tasks and wait for them, so the caller is suspended
Subscribed(session_id) ==
    \E c \in active_connections :
        c \in DOMAIN connection_states
            /\ connection_states[c].session_id = session_id

\* list.remove(x): the first occurrence only
RemoveFirst(list, x) ==
    IF \E k \in 1..Len(list) : list[k] = x
    THEN LET first == CHOOSE k \in 1..Len(list) :
                          list[k] = x /\ \A j \in 1..(k - 1) : list[j] # x
         IN  [j \in 1..(Len(list) - 1) |->
                 IF j < first THEN list[j] ELSE list[j + 1]]
    ELSE list

InList(list, x) == \E k \in 1..Len(list) : list[k] = x

\* streaming_state.status = ...; streaming_state.is_active = ... on the object
\* a local variable refers to, `if streaming_state:` included
SetStatus(objects, ref, status, active) ==
    IF ref = NoState
    THEN objects
    ELSE [objects EXCEPT ![ref].status = status, ![ref].is_active = active]

\* streaming_state.characters_sent = i + 1
SetSent(objects, ref, n) ==
    IF ref = NoState THEN objects ELSE [objects EXCEPT ![ref].characters_sent = n]

\* _streaming_states.get(session_id)
StateOf(session_id) ==
    IF session_id \in DOMAIN streaming_states
    THEN streaming_states[session_id]
    ELSE NoState

\* A call suspended at an await: which call, of which session, for which
\* message or client, and the arguments it still needs
Frame(kind, session_id, id, message_content, typing_speed_wpm) ==
    [ kind             |-> kind,
      session_id       |-> session_id,
      id               |-> id,
      message_content  |-> message_content,
      typing_speed_wpm |-> typing_speed_wpm ]

Suspended(kind, session_id, id) ==
    SetToBag({Frame(kind, session_id, id, EmptyStr, 0)})

\* The session ids and client ids that calls name
SessionIds == {1, 2}
ClientIds == 1..MaxClients

\* The task has ended
Ended(t) == [t EXCEPT !.pc = "done"]

----------------------------------------------------------------------------
\* create_session, lines 62-67
CreateSession ==
    /\ Len(sessions) < Cardinality(SessionIds)
    /\ sessions' = Append(sessions, <<>>)
    /\ UNCHANGED <<messages, streaming_states, streaming_objects,
                   active_streaming_tasks, tasks, typing_indicators,
                   connection_states, active_connections, connections,
                   handlers, client_ids, aggregatorVars, httpVars, loadingVars, inputVars>>

\* start_message_streaming, lines 891-930 (with thinking time) or 891-939
\* (without): a session id that names no session raises ValueError; else the
\* message joins the session, a new StreamingState replaces the session's
\* one; with thinking time the call then sets the typing indicator and
\* sleeps, without it the task is created at once.  The caller says what
\* becomes of response.
StartMessageStreaming(session_id, message_content, typing_speed_wpm, include_thinking_time) ==
    IF session_id \notin DOMAIN sessions
    THEN /\ raised' = "ValueError"
         /\ UNCHANGED <<streamingVars, aggregatorVars, inputVars, loadingVars>>
    ELSE /\ raised' = ""
         /\ LET m == Len(messages) + 1
            IN  /\ messages' = Append(messages, NewMessage)
                /\ sessions' = [sessions EXCEPT ![session_id] = Append(@, m)]
                /\ streaming_objects' =
                       Append(streaming_objects,
                              NewStreamingState(session_id, m, message_content))
                /\ streaming_states' = Put(streaming_states, session_id, m)
                /\ IF include_thinking_time
                   THEN /\ typing_indicators' =
                               Put(typing_indicators, session_id, [is_typing |-> TRUE])
                        /\ handlers' = handlers (+)
                               SetToBag({Frame("start", session_id, m,
                                               message_content, typing_speed_wpm)})
                        /\ UNCHANGED <<tasks, active_streaming_tasks>>
                   ELSE /\ tasks' = Put(tasks, m,
                               NewTask(session_id, message_content, typing_speed_wpm))
                        /\ active_streaming_tasks' = active_streaming_tasks \cup {m}
                        /\ UNCHANGED <<typing_indicators, handlers>>
         /\ UNCHANGED <<connection_states, active_connections, connections,
                        client_ids, aggregatorVars, inputVars, loadingVars>>

\* start_message_streaming after the thinking sleep, lines 932-939
CreateStreamingTask(h) ==
    /\ BagIn(h, handlers)
    /\ h.kind = "start"
    /\ tasks' = Put(tasks, h.id,
                    NewTask(h.session_id, h.message_content, h.typing_speed_wpm))
    /\ active_streaming_tasks' = active_streaming_tasks \cup {h.id}
    /\ handlers' = handlers (-) SetToBag({h})
    /\ UNCHANGED <<sessions, messages, streaming_states, streaming_objects,
                   typing_indicators, connection_states, active_connections,
                   connections, client_ids, aggregatorVars, httpVars, loadingVars, inputVars>>

----------------------------------------------------------------------------
\* _stream_message_content, lines 941-1015

\* _clear_typing_indicator, lines 1078-1085, up to its await: TRUE when the
\* caller is suspended in the broadcast with the indicator still stored
ClearSuspends(session_id) ==
    session_id \in DOMAIN typing_indicators /\ Subscribed(session_id)

ClearedIndicators_KeepsWithoutClients(session_id) ==
    IF session_id \in DOMAIN typing_indicators
    THEN [typing_indicators EXCEPT ![session_id].is_typing = FALSE]
    ELSE typing_indicators

ClearedIndicators(session_id) ==
    IF ClearSuspends(session_id)
    THEN [typing_indicators EXCEPT ![session_id].is_typing = FALSE]
    ELSE Drop(typing_indicators, session_id)

\* The end of the task: the status of the message and of the state the task
\* refers to (lines 993-996, 1002-1005 or 1008-1011), then the finally block,
\* lines 1014-1015
Exit(m, t, objects, message_status, status) ==
    /\ messages' = [messages EXCEPT ![m].status = message_status]
    /\ streaming_objects' = SetStatus(objects, t.streaming_state, status, FALSE)
    /\ active_streaming_tasks' = active_streaming_tasks \ {m}
    /\ typing_indicators' = ClearedIndicators(t.session_id)
    /\ tasks' = IF ClearSuspends(t.session_id)
                THEN Put(tasks, m, [t EXCEPT !.pc = "clearing"])
                ELSE Put(tasks, m, Ended(t))

\* One round of the loop, lines 966-981 and, when the broadcast does not
\* suspend, 984-990; after the last character lines 993-996
NextChar(m, t, objects) ==
    IF t.i = StrLen(t.full_content)
    THEN Exit(m, t, objects, "completed", "complete")
    ELSE LET content == StrAppend(t.current_content,
                                  CharAt(t.full_content, t.i + 1))
         IN  IF StrLen(content) > MaxContentLength
             THEN Exit(m, [t EXCEPT !.current_content = content], objects,
                       "failed", "error")
             ELSE /\ messages' = [messages EXCEPT ![m].content = content]
                  /\ IF Subscribed(t.session_id)
                     THEN /\ streaming_objects' = objects
                          /\ tasks' = Put(tasks, m,
                                 [t EXCEPT !.current_content = content,
                                           !.pc = "broadcast"])
                     ELSE /\ streaming_objects' =
                                 SetSent(objects, t.streaming_state, t.i + 1)
                          /\ tasks' = Put(tasks, m,
                                 [t EXCEPT !.current_content = content,
                                           !.i = @ + 1,
                                           !.pc = "sleep"])
                  /\ UNCHANGED <<active_streaming_tasks, typing_indicators>>

\* First step of the task, lines 952-962 and the first round of the loop; a
\* speed of 0 raises ZeroDivisionError at line 956, before the state is read
StreamBegin(m) ==
    /\ m \in DOMAIN tasks
    /\ tasks[m].pc = "created"
    /\ ~tasks[m].must_cancel
    /\ IF tasks[m].typing_speed_wpm = 0
       THEN Exit(m, tasks[m], streaming_objects, "failed", "error")
       ELSE LET ref == StateOf(tasks[m].session_id)
                t == [tasks[m] EXCEPT !.streaming_state = ref]
                objects ==
                    IF ref = NoState
                    THEN streaming_objects
                    ELSE [streaming_objects EXCEPT ![ref].status = "streaming",
                                                   ![ref].message_id = m]
            IN  NextChar(m, t, objects)
    /\ UNCHANGED <<sessions, streaming_states, connection_states,
                   active_connections, connections, handlers, client_ids,
                   aggregatorVars, httpVars, loadingVars, inputVars>>

\* The task resumes after the broadcast of a chunk, lines 984-990
StreamAfterBroadcast(m) ==
    /\ m \in DOMAIN tasks
    /\ tasks[m].pc = "broadcast"
    /\ ~tasks[m].must_cancel
    /\ streaming_objects' =
           SetSent(streaming_objects, tasks[m].streaming_state, tasks[m].i + 1)
    /\ tasks' = [tasks EXCEPT ![m].i = @ + 1, ![m].pc = "sleep"]
    /\ UNCHANGED <<sessions, messages, streaming_states, active_streaming_tasks,
                   typing_indicators, connection_states, active_connections,
                   connections, handlers, client_ids, aggregatorVars, httpVars, loadingVars, inputVars>>

\* The task resumes after the sleep between two characters
StreamAfterSleep(m) ==
    /\ m \in DOMAIN tasks
    /\ tasks[m].pc = "sleep"
    /\ ~tasks[m].must_cancel
    /\ NextChar(m, tasks[m], streaming_objects)
    /\ UNCHANGED <<sessions, streaming_states, connection_states,
                   active_connections, connections, handlers, client_ids,
                   aggregatorVars, httpVars, loadingVars, inputVars>>

\* A cancelled task resumes with CancelledError at its await, lines 1000-1005
\* and the finally block
StreamCancelled(m) ==
    /\ m \in DOMAIN tasks
    /\ tasks[m].pc \in {"broadcast", "sleep"}
    /\ tasks[m].must_cancel
    /\ Exit(m, tasks[m], streaming_objects, "failed", "error")
    /\ UNCHANGED <<sessions, streaming_states, connection_states,
                   active_connections, connections, handlers, client_ids,
                   aggregatorVars, httpVars, loadingVars, inputVars>>

\* A task cancelled before its first step never enters its body: the
\* CancelledError is thrown at the start of the coroutine, outside the try
StreamNeverStarted(m) ==
    /\ m \in DOMAIN tasks
    /\ tasks[m].pc = "created"
    /\ tasks[m].must_cancel
    /\ tasks' = [tasks EXCEPT ![m] = Ended(@)]
    /\ UNCHANGED <<sessions, messages, streaming_states, streaming_objects,
                   active_streaming_tasks, typing_indicators, connection_states,
                   active_connections, connections, handlers, client_ids,
                   aggregatorVars, httpVars, loadingVars, inputVars>>

\* The task resumes in _clear_typing_indicator, line 1084 (a KeyError when the
\* indicator is gone ends the task as well)
StreamCleared(m) ==
    /\ m \in DOMAIN tasks
    /\ tasks[m].pc = "clearing"
    /\ typing_indicators' = Drop(typing_indicators, tasks[m].session_id)
    /\ tasks' = [tasks EXCEPT ![m] = Ended(@)]
    /\ UNCHANGED <<sessions, messages, streaming_states, streaming_objects,
                   active_streaming_tasks, connection_states, active_connections,
                   connections, handlers, client_ids, aggregatorVars, httpVars, loadingVars, inputVars>>

----------------------------------------------------------------------------
\* cancel_streaming, lines 1173-1194, for a session with an active state
\* (without one it returns False at line 1179): Task.cancel() on the task
\* registered for the state's message, the state set to ERROR and inactive,
\* then _clear_typing_indicator
CancelStreaming(session_id) ==
    /\ StateOf(session_id) # NoState
    /\ streaming_objects[StateOf(session_id)].is_active
    /\ LET ref == StateOf(session_id)
           m == streaming_objects[ref].message_id
       IN  /\ tasks' = IF m \in active_streaming_tasks /\ tasks[m].pc # "done"
                       THEN [tasks EXCEPT ![m].must_cancel = TRUE]
                       ELSE tasks
           /\ streaming_objects' = SetStatus(streaming_objects, ref, "error", FALSE)
    /\ typing_indicators' = ClearedIndicators(session_id)
    /\ handlers' = IF ClearSuspends(session_id)
                   THEN handlers (+) Suspended("clear", session_id, NoClient)
                   ELSE handlers
    /\ UNCHANGED <<sessions, messages, streaming_states, active_streaming_tasks,
                   connection_states, active_connections, connections,
                   client_ids, aggregatorVars, httpVars, loadingVars, inputVars>>

\* A call suspended in _clear_typing_indicator resumes at line 1084 (a
\* KeyError when the indicator is gone changes the answer, not the registries)
ClearResumed(h) ==
    /\ BagIn(h, handlers)
    /\ h.kind = "clear"
    /\ typing_indicators' = Drop(typing_indicators, h.session_id)
    /\ handlers' = handlers (-) SetToBag({h})
    /\ UNCHANGED <<sessions, messages, streaming_states, streaming_objects,
                   active_streaming_tasks, tasks, connection_states,
                   active_connections, connections, client_ids, aggregatorVars, httpVars, loadingVars, inputVars>>

----------------------------------------------------------------------------
\* Connections

\* register_streaming_connection, lines 1120-1145, for the new id
Registered(objects, session_id, client_id) ==
    [ connection_states  |-> Put(connection_states, client_id,
                                 NewConnectionState(session_id)),
      active_connections |-> active_connections \cup {client_id},
      connections        |-> Put(connections, client_id, TRUE),
      streaming_objects  |->
          IF StateOf(session_id) # NoState
               /\ ~InList(objects[StateOf(session_id)].connected_clients,
                          client_id)
          THEN [objects EXCEPT ![StateOf(session_id)].connected_clients =
                                   Append(@, client_id)]
          ELSE objects ]

\* unregister_streaming_connection, lines 1152-1165, with
\* unregister_connection, lines 274-283
Unregistered(client_id) ==
    LET session_id == IF client_id \in DOMAIN connection_states
                      THEN connection_states[client_id].session_id
                      ELSE NoState
    IN  [ connection_states  |-> Drop(connection_states, client_id),
          active_connections |-> active_connections \ {client_id},
          connections        |-> Drop(connections, client_id),
          streaming_objects  |->
              IF session_id # NoState /\ StateOf(session_id) # NoState
              THEN [streaming_objects EXCEPT
                       ![StateOf(session_id)].connected_clients =
                           RemoveFirst(@, client_id)]
              ELSE streaming_objects ]

RegisterStreamingConnection(session_id) ==
    /\ client_ids < MaxClients
    /\ LET r == Registered(streaming_objects, session_id, client_ids + 1)
       IN  /\ connection_states' = r.connection_states
           /\ active_connections' = r.active_connections
           /\ connections' = r.connections
           /\ streaming_objects' = r.streaming_objects
    /\ client_ids' = client_ids + 1
    /\ UNCHANGED <<sessions, messages, streaming_states, active_streaming_tasks,
                   tasks, typing_indicators, handlers, aggregatorVars, httpVars, loadingVars, inputVars>>

UnregisterStreamingConnection(client_id) ==
    /\ client_id \in DOMAIN connection_states
    /\ LET r == Unregistered(client_id)
       IN  /\ connection_states' = r.connection_states
           /\ active_connections' = r.active_connections
           /\ connections' = r.connections
           /\ streaming_objects' = r.streaming_objects
    /\ UNCHANGED <<sessions, messages, streaming_states, active_streaming_tasks,
                   tasks, typing_indicators, handlers, client_ids,
                   aggregatorVars, httpVars, loadingVars, inputVars>>

\* check_connection_health, lines 1264-1300: the answer for an id without a
\* connection state; otherwise the health report (quality score and idle
\* time are those of a fresh connection, so is_healthy is is_active)
CheckConnectionHealth(client_id) ==
    IF client_id \notin DOMAIN connection_states
    THEN [error |-> "Connection not found", healthy |-> FALSE]
    ELSE [ client_id       |-> client_id,
           is_healthy      |-> connection_states[client_id].is_active,
           reconnect_count |-> connection_states[client_id].reconnect_count ]

\* handle_connection_drop, lines 1311-1337, for an id with a connection
\* state: the connection is marked inactive; when the session has an active
\* streaming state it is set to PAUSED and the typing indicator is set, whose
\* broadcast suspends the call (the dropped client is still subscribed);
\* otherwise the connection is unregistered at once, line 1341.  A connection
\* is reported as dropped once, while it is active
HandleConnectionDrop(client_id) ==
    /\ client_id \in DOMAIN connection_states
    /\ connection_states[client_id].is_active
    /\ LET session_id == connection_states[client_id].session_id
           ref == StateOf(session_id)
       IN  IF ref # NoState /\ streaming_objects[ref].is_active
           THEN /\ connection_states' =
                       [connection_states EXCEPT ![client_id].is_active = FALSE]
                /\ streaming_objects' =
                       [streaming_objects EXCEPT ![ref].status = "paused"]
                /\ typing_indicators' =
                       Put(typing_indicators, session_id, [is_typing |-> TRUE])
                /\ handlers' = handlers (+) Suspended("drop", session_id, client_id)
                /\ UNCHANGED <<active_connections, connections>>
           ELSE LET r == Unregistered(client_id)
                IN  /\ connection_states' = r.connection_states
                    /\ active_connections' = r.active_connections
                    /\ connections' = r.connections
                    /\ streaming_objects' = r.streaming_objects
                    /\ UNCHANGED <<typing_indicators, handlers>>
    /\ UNCHANGED <<sessions, messages, streaming_states, active_streaming_tasks,
                   tasks, client_ids, aggregatorVars, httpVars, loadingVars, inputVars>>

\* handle_connection_drop after the broadcast, line 1341
DropResumed(h) ==
    /\ BagIn(h, handlers)
    /\ h.kind = "drop"
    /\ LET r == Unregistered(h.id)
       IN  /\ connection_states' = r.connection_states
           /\ active_connections' = r.active_connections
           /\ connections' = r.connections
           /\ streaming_objects' = r.streaming_objects
    /\ handlers' = handlers (-) SetToBag({h})
    /\ UNCHANGED <<sessions, messages, streaming_states, active_streaming_tasks,
                   tasks, typing_indicators, client_ids, aggregatorVars, httpVars, loadingVars, inputVars>>

\* attempt_reconnection, lines 1358-1376: the new connection is registered,
\* takes the reconnect count of a previous connection that still has a
\* state, and a PAUSED streaming state of the session goes back to STREAMING
\* with the new id appended to connected_clients, followed by
\* _clear_typing_indicator (the new client is subscribed, so a stored
\* indicator suspends the call)
AttemptReconnection(session_id, previous_client_id) ==
    /\ client_ids < MaxClients
    /\ LET new_client_id == client_ids + 1
           r == Registered(streaming_objects, session_id, new_client_id)
           ref == StateOf(session_id)
           paused == ref # NoState /\ r.streaming_objects[ref].status = "paused"
       IN  /\ connection_states' =
                  IF previous_client_id \in DOMAIN connection_states
                  THEN [r.connection_states EXCEPT
                           ![new_client_id].reconnect_count =
                               connection_states[previous_client_id].reconnect_count + 1]
                  ELSE r.connection_states
           /\ active_connections' = r.active_connections
           /\ connections' = r.connections
           /\ streaming_objects' =
                  IF paused
                  THEN [r.streaming_objects EXCEPT
                           ![ref].status = "streaming",
                           ![ref].connected_clients = Append(@, new_client_id)]
                  ELSE r.streaming_objects
           /\ IF paused /\ session_id \in DOMAIN typing_indicators
              THEN /\ typing_indicators' =
                          [typing_indicators EXCEPT ![session_id].is_typing = FALSE]
                   /\ handlers' = handlers (+) Suspended("clear", session_id, NoClient)
              ELSE UNCHANGED <<typing_indicators, handlers>>
    /\ client_ids' = client_ids + 1
    /\ UNCHANGED <<sessions, messages, streaming_states, active_streaming_tasks,
                   tasks, aggregatorVars, httpVars, loadingVars, inputVars>>

----------------------------------------------------------------------------
\* The calls that are explored

\* typing_speed_wpm: the default of line 895, and 0
Speeds == {0, 150}

ShortContents == Texts(MaxTextLen)

\* The empty content and the content "ab"
SampleContents == {EmptyStr, [pad |-> 1, text |-> <<"b">>]}

\* Contents of exactly the longest valid message, and one character more
LongContents ==
    { [pad |-> MaxContentLength - 1, text |-> <<"b">>],
      [pad |-> MaxContentLength, text |-> <<"b">>] }

\* Connections coming, going, dropping and reconnecting around one stream,
\* which may be cancelled
StartStream ==
    /\ messages = <<>>
    /\ \E session_id \in SessionIds, message_content \in SampleContents,
          include_thinking_time \in BOOLEAN :
           StartMessageStreaming(session_id, message_content, 150,
                                 include_thinking_time)
    /\ UNCHANGED response

ConnectionsNext ==
    \/ CreateSession
    \/ StartStream
    \/ \E h \in BagToSet(handlers) : CreateStreamingTask(h)
    \/ \E m \in DOMAIN tasks : StreamBegin(m)
    \/ \E m \in DOMAIN tasks : StreamAfterBroadcast(m)
    \/ \E m \in DOMAIN tasks : StreamAfterSleep(m)
    \/ \E m \in DOMAIN tasks : StreamCleared(m)
    \/ \E m \in DOMAIN tasks : StreamCancelled(m)
    \/ \E m \in DOMAIN tasks : StreamNeverStarted(m)
    \/ \E session_id \in SessionIds : CancelStreaming(session_id)
    \/ \E h \in BagToSet(handlers) : ClearResumed(h)
    \/ \E session_id \in SessionIds : RegisterStreamingConnection(session_id)
    \/ \E client_id \in ClientIds : UnregisterStreamingConnection(client_id)
    \/ \E client_id \in ClientIds : HandleConnectionDrop(client_id)
    \/ \E h \in BagToSet(handlers) : DropResumed(h)
    \/ \E session_id \in SessionIds, previous_client_id \in {NoClient} \cup ClientIds :
           AttemptReconnection(session_id, previous_client_id)

\* The aggregator is not run
InitChat ==
    /\ log = <<>>
    /\ now = 0
    /\ pc = "done"
    /\ all_entries = <<>>
    /\ processed_hashes = {}
    /\ session_blocks = <<>>
    /\ result = <<>>
    /\ claude_reset = ""
    /\ cost_usage = ""
    /\ NewChatManager

SpecConnections == InitChat /\ [][ConnectionsNext]_vars

\* One stream on one session, never cancelled, with at most one client
\* coming and going, for contents up to and beyond the longest valid message
CreateOnlySession == sessions = <<>> /\ CreateSession

StartOnlyStream ==
    /\ messages = <<>>
    /\ \E message_content \in ShortContents \cup LongContents,
          typing_speed_wpm \in Speeds, include_thinking_time \in BOOLEAN :
           StartMessageStreaming(1, message_content, typing_speed_wpm,
                                 include_thinking_time)
    /\ UNCHANGED response

RegisterOnlyClient == client_ids = 0 /\ RegisterStreamingConnection(1)

StreamNext ==
    \/ CreateOnlySession
    \/ StartOnlyStream
    \/ \E h \in BagToSet(handlers) : CreateStreamingTask(h)
    \/ \E m \in DOMAIN tasks : StreamBegin(m)
    \/ \E m \in DOMAIN tasks : StreamAfterBroadcast(m)
    \/ \E m \in DOMAIN tasks : StreamAfterSleep(m)
    \/ \E m \in DOMAIN tasks : StreamCleared(m)
    \/ RegisterOnlyClient
    \/ \E client_id \in ClientIds : UnregisterStreamingConnection(client_id)

SpecStream == InitChat /\ [][StreamNext]_vars

----------------------------------------------------------------------------
\* The stream of message m: the content it was asked to deliver, whether its
\* task has ended, and the streaming state of its session

StartFrames(m) == {h \in BagToSet(handlers) : h.kind = "start" /\ h.id = m}

Requested(m) ==
    IF m \in DOMAIN tasks
    THEN tasks[m].full_content
    ELSE (CHOOSE h \in StartFrames(m) : TRUE).message_content

RequestedSpeed(m) ==
    IF m \in DOMAIN tasks
    THEN tasks[m].typing_speed_wpm
    ELSE (CHOOSE h \in StartFrames(m) : TRUE).typing_speed_wpm

TaskEnded(m) == m \in DOMAIN tasks /\ tasks[m].pc = "done"

SessionOf(m) == CHOOSE s \in DOMAIN sessions : InList(sessions[s], m)

StreamingStateOf(m) == streaming_objects[StateOf(SessionOf(m))]

\* The stream of m is the only one of its session and its task was not
\* cancelled
SingleStream(m) ==
    /\ Len(sessions[SessionOf(m)]) = 1
    /\ m \in DOMAIN tasks => ~tasks[m].must_cancel

\* The outcome C19 describes
Delivered(m) ==
    /\ messages[m].content = Requested(m)
    /\ messages[m].status = "completed"
    /\ ~StreamingStateOf(m).is_active
    /\ StreamingStateOf(m).status = "complete"
    /\ StreamingStateOf(m).characters_sent = StreamingStateOf(m).total_characters

\* C19 (as claimed): with a single stream on a session and no cancellation,
\* at every point the message content is a prefix of the requested content,
\* and once the streaming task has run to its end the content is the whole
\* requested content, the message is COMPLETED and the streaming state of the
\* session is inactive and COMPLETE with characters_sent = total_characters.
C19_StreamDeliversRequestedContent ==
    \A m \in 1..Len(messages) :
        SingleStream(m) =>
            /\ IsPrefix(messages[m].content, Requested(m))
            /\ TaskEnded(m) => Delivered(m)

\* What does hold: the prefix property always, and the outcome of C19 for a
\* speed other than 0 and a content of at most MaxContentLength characters;
\* otherwise the task ends with the message FAILED and its content cut at
\* MaxContentLength characters (no character at all for a speed of 0)
C19_DeliversWithinLimits ==
    \A m \in 1..Len(messages) :
        SingleStream(m) =>
            /\ IsPrefix(messages[m].content, Requested(m))
            /\ TaskEnded(m) =>
                  IF RequestedSpeed(m) # 0
                       /\ StrLen(Requested(m)) <= MaxContentLength
                  THEN Delivered(m)
                  ELSE /\ messages[m].status = "failed"
                       /\ StrLen(messages[m].content) =
                              IF RequestedSpeed(m) = 0 THEN 0 ELSE MaxContentLength

\* The claim restricted to speeds other than 0: the over-long content alone
\* refutes it
C19_DeliversAtPositiveSpeed ==
    \A m \in 1..Len(messages) :
        (SingleStream(m) /\ RequestedSpeed(m) # 0 /\ TaskEnded(m)) => Delivered(m)

\* A stream of a two-character content that completed while a client was
\* subscribed
C19_Completed ==
    \E m \in 1..Len(messages) :
        /\ SingleStream(m)
        /\ TaskEnded(m)
        /\ StrLen(Requested(m)) = MaxTextLen
        /\ Delivered(m)
        /\ Subscribed(SessionOf(m))

----------------------------------------------------------------------------
\* The three registries hold client_id, as active
RegisteredActive(client_id) ==
    /\ client_id \in DOMAIN connection_states
    /\ connection_states[client_id].is_active
    /\ client_id \in active_connections
    /\ client_id \in DOMAIN connections
    /\ connections[client_id]

\* None of the three registries holds client_id, and its health check says so
NotRegistered(client_id) ==
    /\ client_id \notin DOMAIN connection_states
    /\ client_id \notin active_connections
    /\ client_id \notin DOMAIN connections
    /\ CheckConnectionHealth(client_id) =
           [error |-> "Connection not found", healthy |-> FALSE]

\* connected_clients of the streaming state of a session (empty without one)
ConnectedClients(session_id) ==
    IF StateOf(session_id) = NoState
    THEN <<>>
    ELSE streaming_objects[StateOf(session_id)].connected_clients

Occurrences(list, x) == Cardinality({k \in 1..Len(list) : list[k] = x})

\* C20 (as claimed): register_streaming_connection puts the new client id,
\* as active, into the connection states, the active connections and the
\* legacy statuses; unregister_streaming_connection removes the id from all
\* three and from connected_clients of its session's streaming state, and
\* check_connection_health then answers 'Connection not found'.
C20_RegisterThenUnregister ==
    [][ /\ \A session_id \in SessionIds :
              RegisterStreamingConnection(session_id) =>
                  \A client_id \in ClientIds :
                      client_id = client_ids + 1 => RegisteredActive(client_id)'
        /\ \A client_id \in ClientIds :
              UnregisterStreamingConnection(client_id) =>
                  \A session_id \in SessionIds :
                      connection_states[client_id].session_id = session_id =>
                          /\ NotRegistered(client_id)'
                          /\ ~InList(ConnectedClients(session_id)', client_id)
      ]_vars

\* What does hold: the three registries as claimed, and one entry of
\* connected_clients removed, which empties it of the id when the id was
\* listed once
C20_UnregisterRemovesOneEntry ==
    [][ /\ \A session_id \in SessionIds :
              RegisterStreamingConnection(session_id) =>
                  \A client_id \in ClientIds :
                      client_id = client_ids + 1 => RegisteredActive(client_id)'
        /\ \A client_id \in ClientIds :
              UnregisterStreamingConnection(client_id) =>
                  \A session_id \in SessionIds, before \in 0..MaxClients :
                      ( /\ connection_states[client_id].session_id = session_id
                        /\ Occurrences(ConnectedClients(session_id), client_id) = before )
                      =>  /\ NotRegistered(client_id)'
                          /\ Occurrences(ConnectedClients(session_id)', client_id) =
                                 IF before = 0 THEN 0 ELSE before - 1
      ]_vars

\* A client listed twice in connected_clients of its session
C20_ListedTwice ==
    \E client_id \in DOMAIN connection_states :
        Occurrences(ConnectedClients(connection_states[client_id].session_id),
                    client_id) = MaxClients

----------------------------------------------------------------------------
\* The input system of ChatManager: input history, drafts, analytics
\* (webui/services/chat_manager.py 617-885, models in webui/models/chat.py)

\* Bounds of the explored calls: entries saved to one session's history,
\* half days the clock advances
MaxHistory == 2
MaxClock == 3

\* get_draft drops a draft saved more than 24 hours ago
DraftMaxAgeSeconds == 86400

\* The clock advances by half of that age
ClockStep == DraftMaxAgeSeconds \div 2

\* Texts typed by the user: a whitespace character and a letter
Blank == " "
InputChars == {Blank, "a"}
InputTexts == UNION { [1..n -> InputChars] : n \in 0..MaxTextLen }

\* DraftSaveRequest.cursor_position: Field(default=0, ge=0)
CursorPositions == {0, 1}

\* str.strip()
RECURSIVE LStrip(_)
LStrip(s) == IF s # <<>> /\ Head(s) = Blank THEN LStrip(Tail(s)) ELSE s

RECURSIVE RStrip(_)
RStrip(s) == IF s # <<>> /\ s[Len(s)] = Blank THEN RStrip(SubSeq(s, 1, Len(s) - 1)) ELSE s

Strip(s) == RStrip(LStrip(s))

\* len(s.split()): the runs of non-whitespace characters
WordCount(s) == Cardinality({ i \in 1..Len(s) : s[i] # Blank /\ (i = 1 \/ s[i - 1] = Blank) })

\* InputHistoryRequest.text: Field(min_length=1)
HistoryRequestTexts == InputTexts \ {<<>>}

\* InputHistoryEntry.validate_text raises on an empty or blank text
ValidText(v) == v # <<>> /\ Strip(v) # <<>>

\* InputHistoryEntry(session_id=, text=): validate_text strips the text,
\* model_post_init counts its characters and words
NewInputHistoryEntry(session_id, text) == [session_id |-> session_id, text |-> Strip(text), input_length |-> Len(Strip(text)), word_count |-> WordCount(Strip(text))]

\* InputAnalytics(session_id=)
NewInputAnalytics(session_id) == [session_id |-> session_id, total_inputs |-> 0, total_characters |-> 0]

\* Variant: the words of the input are counted in place of its characters
AddInputEvent_CountsWords(analytics, input_entry) == [analytics EXCEPT !.total_inputs = @ + 1, !.total_characters = @ + input_entry.word_count]

\* InputAnalytics.add_input_event
AddInputEvent(analytics, input_entry) == [analytics EXCEPT !.total_inputs = @ + 1, !.total_characters = @ + input_entry.input_length]

\* InputDraft(session_id=, content=, cursor_position=): the counts keep their
\* defaults
NewInputDraft(session_id, content, cursor_position) == [session_id |-> session_id, content |-> content, cursor_position |-> cursor_position, last_saved |-> utcnow, word_count |-> 0, character_count |-> 0, is_active |-> TRUE]

\* InputDraft.update_content
UpdateContent(draft, new_content, cursor_pos) == [draft EXCEPT !.content = new_content, !.cursor_position = cursor_pos, !.last_saved = utcnow, !.word_count = IF new_content # <<>> THEN WordCount(new_content) ELSE 0, !.character_count = Len(new_content)]

\* self._input_history.get(session_id, [])
HistoryOf(session_id) == IF session_id \in DOMAIN input_history THEN input_history[session_id] ELSE <<>>

\* ChatManager.save_input_to_history: a blank text raises before anything is
\* stored
SaveInputToHistory(session_id, text) ==
    /\ Len(HistoryOf(session_id)) < MaxHistory
    /\ IF ~ValidText(text)
       THEN UNCHANGED <<input_history, input_analytics>>
       ELSE LET entry == NewInputHistoryEntry(session_id, text)
                analytics == IF session_id \in DOMAIN input_analytics
                             THEN input_analytics[session_id]
                             ELSE NewInputAnalytics(session_id)
            IN  /\ input_history' = Put(input_history, session_id, Append(HistoryOf(session_id), entry))
                /\ input_analytics' = Put(input_analytics, session_id, AddInputEvent(analytics, entry))
    /\ UNCHANGED <<input_drafts, utcnow, streamingVars, aggregatorVars, httpVars, loadingVars>>

Reversed_Chronological(s) == s

\* list(reversed(history))
RECURSIVE Reversed(_)
Reversed(s) == IF s = <<>> THEN <<>> ELSE Append(Reversed(Tail(s)), Head(s))

\* all_entries[start_idx:end_idx] with 0 <= start_idx <= end_idx
Slice(s, start_idx, end_idx) == SubSeq(s, start_idx + 1, IF end_idx < Len(s) THEN end_idx ELSE Len(s))

\* ChatManager.get_input_history: its return value
GetInputHistory(session_id, limit, offset) ==
    IF session_id \notin DOMAIN input_history
    THEN [entries |-> <<>>, total_count |-> 0, has_more |-> FALSE]
    ELSE LET newest_first == Reversed(input_history[session_id])
             total_count == Len(newest_first)
             start_idx == offset
             end_idx == offset + limit
         IN  [entries |-> Slice(newest_first, start_idx, end_idx), total_count |-> total_count, has_more |-> end_idx < total_count]

\* ChatManager.save_draft
SaveDraft(session_id, content, cursor_position) ==
    /\ input_drafts' = IF session_id \in DOMAIN input_drafts
                       THEN Put(input_drafts, session_id, UpdateContent(input_drafts[session_id], content, cursor_position))
                       ELSE Put(input_drafts, session_id, NewInputDraft(session_id, content, cursor_position))
    /\ UNCHANGED <<input_history, input_analytics, utcnow, streamingVars, aggregatorVars, httpVars, loadingVars>>

Expired_AtLimit(draft) == utcnow - draft.last_saved >= DraftMaxAgeSeconds

\* time_diff.total_seconds() > 86400
Expired(draft) == utcnow - draft.last_saved > DraftMaxAgeSeconds

\* ChatManager.get_draft: its return value, the empty list for None
GetDraftResult(session_id) ==
    IF session_id \notin DOMAIN input_drafts THEN <<>>
    ELSE IF ~input_drafts[session_id].is_active THEN <<>>
    ELSE IF Expired(input_drafts[session_id]) THEN <<>>
    ELSE <<input_drafts[session_id]>>

\* ChatManager.get_draft: an expired draft is removed
GetDraft(session_id) ==
    /\ input_drafts' = IF /\ session_id \in DOMAIN input_drafts
                          /\ input_drafts[session_id].is_active
                          /\ Expired(input_drafts[session_id])
                       THEN Drop(input_drafts, session_id)
                       ELSE input_drafts
    /\ UNCHANGED <<input_history, input_analytics, utcnow, streamingVars, aggregatorVars, httpVars, loadingVars>>

\* ChatManager.clear_draft: its return value
ClearDraftResult(session_id) == session_id \in DOMAIN input_drafts

\* ChatManager.clear_draft
ClearDraft(session_id) ==
    /\ input_drafts' = IF session_id \in DOMAIN input_drafts THEN Drop(input_drafts, session_id) ELSE input_drafts
    /\ UNCHANGED <<input_history, input_analytics, utcnow, streamingVars, aggregatorVars, httpVars, loadingVars>>

\* ChatManager.cleanup_session_input_data: its return value
CleanupResults(session_id) == [history_cleared |-> session_id \in DOMAIN input_history, draft_cleared |-> session_id \in DOMAIN input_drafts, analytics_cleared |-> session_id \in DOMAIN input_analytics]

CleanupSessionInputData_KeepsAnalytics(session_id) ==
    /\ input_history' = IF session_id \in DOMAIN input_history THEN Drop(input_history, session_id) ELSE input_history
    /\ input_drafts' = IF session_id \in DOMAIN input_drafts THEN Drop(input_drafts, session_id) ELSE input_drafts
    /\ UNCHANGED <<input_analytics, utcnow, streamingVars, aggregatorVars, httpVars, loadingVars>>

\* ChatManager.cleanup_session_input_data
CleanupSessionInputData(session_id) ==
    /\ input_history' = IF session_id \in DOMAIN input_history THEN Drop(input_history, session_id) ELSE input_history
    /\ input_drafts' = IF session_id \in DOMAIN input_drafts THEN Drop(input_drafts, session_id) ELSE input_drafts
    /\ input_analytics' = IF session_id \in DOMAIN input_analytics THEN Drop(input_analytics, session_id) ELSE input_analytics
    /\ UNCHANGED <<utcnow, streamingVars, aggregatorVars, httpVars, loadingVars>>

\* datetime.utcnow() advances between two calls
Tick ==
    /\ utcnow < MaxClock * ClockStep
    /\ utcnow' = utcnow + ClockStep
    /\ UNCHANGED <<input_history, input_drafts, input_analytics, streamingVars, aggregatorVars, httpVars, loadingVars>>

\* Drafts saved by the explored calls: an empty one, one word, two words
DraftContents == {<<>>, <<"a">>, <<"a", Blank, "a">>}

\* The draft calls of the manager, at any time
DraftsNext ==
    \/ \E session_id \in SessionIds, content \in DraftContents, cursor_position \in CursorPositions : SaveDraft(session_id, content, cursor_position)
    \/ \E session_id \in SessionIds : GetDraft(session_id)
    \/ \E session_id \in SessionIds : ClearDraft(session_id)
    \/ Tick

SpecDrafts == InitChat /\ [][DraftsNext]_vars

\* The history and cleanup calls of the manager, and the saves of a one-word
\* draft
InputNext ==
    \/ \E session_id \in SessionIds, text \in HistoryRequestTexts : SaveInputToHistory(session_id, text)
    \/ \E session_id \in SessionIds : SaveDraft(session_id, <<"a">>, 0)
    \/ \E session_id \in SessionIds : CleanupSessionInputData(session_id)

SpecInput == InitChat /\ [][InputNext]_vars

----------------------------------------------------------------------------
\* Typing indicators set and cleared by the typing endpoint

\* Bound of the explored calls: calls suspended at the same time
MaxPending == 2

\* ChatManager._set_typing_indicator: the indicator is stored before the
\* broadcast, and nothing follows the broadcast
SetTypingIndicator(session_id) ==
    /\ typing_indicators' = Put(typing_indicators, session_id, [is_typing |-> TRUE])
    /\ UNCHANGED <<sessions, messages, streaming_states, streaming_objects,
                   active_streaming_tasks, tasks, connection_states,
                   active_connections, connections, handlers, client_ids,
                   aggregatorVars, httpVars, loadingVars, inputVars>>

\* ChatManager._clear_typing_indicator: with a subscribed client the call is
\* suspended in the broadcast and deletes the indicator when it resumes
ClearTypingIndicator(session_id) ==
    /\ typing_indicators' = ClearedIndicators(session_id)
    /\ handlers' = IF ClearSuspends(session_id)
                   THEN handlers (+) Suspended("clear", session_id, NoClient)
                   ELSE handlers
    /\ UNCHANGED <<sessions, messages, streaming_states, streaming_objects,
                   active_streaming_tasks, tasks, connection_states,
                   active_connections, connections, client_ids,
                   aggregatorVars, httpVars, loadingVars, inputVars>>

\* The typing endpoint and the connections of the clients
TypingNext ==
    \/ \E session_id \in SessionIds : SetTypingIndicator(session_id)
    \/ \E session_id \in SessionIds : BagCardinality(handlers) < MaxPending /\ ClearTypingIndicator(session_id)
    \/ \E h \in BagToSet(handlers) : ClearResumed(h)
    \/ \E session_id \in SessionIds : RegisterStreamingConnection(session_id)
    \/ \E client_id \in ClientIds : UnregisterStreamingConnection(client_id)

SpecTyping == InitChat /\ [][TypingNext]_vars

----------------------------------------------------------------------------
\* Streams started on one session while an earlier one is still at work

\* Bound of the explored calls: start_message_streaming calls on the session
MaxStreams == 2

StartOverlapping ==
    /\ Len(messages) < MaxStreams
    /\ \E message_content \in SampleContents, include_thinking_time \in BOOLEAN :
           StartMessageStreaming(1, message_content, 150, include_thinking_time)
    /\ UNCHANGED response

OverlapNext ==
    \/ CreateOnlySession
    \/ StartOverlapping
    \/ \E h \in BagToSet(handlers) : CreateStreamingTask(h)
    \/ \E m \in DOMAIN tasks : StreamBegin(m)
    \/ \E m \in DOMAIN tasks : StreamAfterBroadcast(m)
    \/ \E m \in DOMAIN tasks : StreamAfterSleep(m)
    \/ \E m \in DOMAIN tasks : StreamCleared(m)
    \/ RegisterOnlyClient

SpecOverlap == InitChat /\ [][OverlapNext]_vars

----------------------------------------------------------------------------
\* One stream that may be cancelled, under the scheduling of the event loop

StartSampleStream ==
    /\ messages = <<>>
    /\ \E message_content \in SampleContents, include_thinking_time \in BOOLEAN :
           StartMessageStreaming(1, message_content, 150, include_thinking_time)
    /\ UNCHANGED response

\* A step of the task that streams message m
TaskStep(m) ==
    \/ StreamBegin(m)
    \/ StreamAfterBroadcast(m)
    \/ StreamAfterSleep(m)
    \/ StreamCleared(m)
    \/ StreamCancelled(m)
    \/ StreamNeverStarted(m)

CancelNext ==
    \/ CreateOnlySession
    \/ StartSampleStream
    \/ \E h \in BagToSet(handlers) : CreateStreamingTask(h)
    \/ \E m \in DOMAIN tasks : StreamBegin(m)
    \/ \E m \in DOMAIN tasks : StreamAfterBroadcast(m)
    \/ \E m \in DOMAIN tasks : StreamAfterSleep(m)
    \/ \E m \in DOMAIN tasks : StreamCleared(m)
    \/ \E m \in DOMAIN tasks : StreamCancelled(m)
    \/ \E m \in DOMAIN tasks : StreamNeverStarted(m)
    \/ CancelStreaming(1)
    \/ \E h \in BagToSet(handlers) : ClearResumed(h)
    \/ RegisterOnlyClient

\* The event loop runs every task that is ready and resumes every call whose
\* sleep or broadcast is over
EventLoop ==
    /\ \A m \in 1..MaxStreams : WF_vars(TaskStep(m))
    /\ WF_vars(\E h \in BagToSet(handlers) : CreateStreamingTask(h))
    /\ WF_vars(\E h \in BagToSet(handlers) : ClearResumed(h))

SpecCancelFair == InitChat /\ [][CancelNext]_vars /\ EventLoop

----------------------------------------------------------------------------
\* Claims about the input system

\* The draft was saved at most 24 hours ago
Within24Hours(draft) == utcnow - draft.last_saved <= DraftMaxAgeSeconds

\* C21: a draft that was saved is returned by get_draft with the content of
\* the last save as long as it was not cleared and is at most 24 hours old;
\* a session has one draft at most, which a later save replaces; clear_draft
\* returns True exactly when a draft was stored and leaves none.
C21_DraftRoundTrip ==
    /\ [](\A session_id \in DOMAIN input_drafts :
            /\ session_id \in SessionIds
            /\ input_drafts[session_id].session_id = session_id
            /\ Within24Hours(input_drafts[session_id]) => GetDraftResult(session_id) = <<input_drafts[session_id]>>)
    /\ [][\A session_id \in SessionIds :
            /\ \A content \in DraftContents, cursor_position \in CursorPositions :
                 SaveDraft(session_id, content, cursor_position)
                    => /\ GetDraftResult(session_id)' # <<>>
                       /\ GetDraftResult(session_id)'[1].content = content
            /\ (/\ session_id \in DOMAIN input_drafts
                /\ session_id \in DOMAIN input_drafts'
                /\ ~\E content \in DraftContents, cursor_position \in CursorPositions :
                      SaveDraft(session_id, content, cursor_position))
                    => input_drafts'[session_id] = input_drafts[session_id]
            /\ (session_id \in DOMAIN input_drafts /\ session_id \notin DOMAIN input_drafts')
                    => ClearDraft(session_id) \/ ~Within24Hours(input_drafts[session_id])
            /\ ClearDraft(session_id)
                    => /\ ClearDraftResult(session_id) <=> session_id \in DOMAIN input_drafts
                       /\ session_id \notin DOMAIN input_drafts'
            /\ (session_id \notin DOMAIN input_drafts /\ UNCHANGED vars) => ~ClearDraftResult(session_id)
       ]_vars

\* A second save replaced the draft of a session, and the draft is exactly
\* 24 hours old
C21_Witness ==
    \E session_id \in DOMAIN input_drafts :
        /\ input_drafts[session_id].content = <<"a", Blank, "a">>
        /\ input_drafts[session_id].character_count = 3
        /\ input_drafts[session_id].last_saved > 0
        /\ utcnow - input_drafts[session_id].last_saved = DraftMaxAgeSeconds

\* The page sizes and offsets asked for: limit >= 1 and offset >= 0, as the
\* endpoint's Query(ge=1) and Query(ge=0) admit, up to one past the history
Limits == 1..(MaxHistory + 1)
Offsets == 0..(MaxHistory + 1)

\* The number of entries of a page
PageLength(n, limit, offset) == IF offset >= n THEN 0 ELSE IF offset + limit <= n THEN limit ELSE n - offset

\* C22: get_input_history reports the number of entries saved as
\* total_count, returns the entries newest first from position offset for
\* limit entries, and has_more exactly when offset + limit is below the total;
\* without history it returns nothing, 0 and false. Every save adds one entry.
C22_HistoryPages ==
    /\ [](\A session_id \in SessionIds, limit \in Limits, offset \in Offsets :
            LET history == HistoryOf(session_id)
                n == Len(history)
                page == GetInputHistory(session_id, limit, offset)
            IN  /\ page.total_count = n
                /\ page.has_more <=> offset + limit < n
                /\ Len(page.entries) = PageLength(n, limit, offset)
                /\ \A k \in 1..Len(page.entries) : page.entries[k] = history[n - offset - k + 1]
                /\ session_id \notin DOMAIN input_history
                      => page = [entries |-> <<>>, total_count |-> 0, has_more |-> FALSE])
    /\ [][\A session_id \in SessionIds, text \in HistoryRequestTexts :
            (SaveInputToHistory(session_id, text) /\ ValidText(text))
                => /\ GetInputHistory(session_id, 1, 0)'.total_count = GetInputHistory(session_id, 1, 0).total_count + 1
                   /\ GetInputHistory(session_id, 1, 0)'.entries[1].text = Strip(text)
                   /\ GetInputHistory(session_id, MaxHistory, 1)'.entries = GetInputHistory(session_id, MaxHistory, 0).entries
       ]_vars

\* Two different entries were saved to a session, the second one with blanks
\* around it
C22_Witness ==
    \E session_id \in DOMAIN input_history :
        /\ Len(input_history[session_id]) = 2
        /\ input_history[session_id][1].text = <<"a", "a">>
        /\ input_history[session_id][2].text = <<"a">>
        /\ GetInputHistory(session_id, 1, 0).has_more
        /\ GetInputHistory(session_id, 1, 1).entries = <<input_history[session_id][1]>>

\* The input data a session has
HasInputData(session_id) == [history |-> session_id \in DOMAIN input_history, draft |-> session_id \in DOMAIN input_drafts, analytics |-> session_id \in DOMAIN input_analytics]

\* C23: cleanup_session_input_data leaves the session without history, draft
\* and analytics, reports for each of the three whether it was there before,
\* and changes nothing of any other session.
C23_CleanupOneSession ==
    /\ [](\A session_id \in SessionIds :
            /\ CleanupResults(session_id).history_cleared <=> HasInputData(session_id).history
            /\ CleanupResults(session_id).draft_cleared <=> HasInputData(session_id).draft
            /\ CleanupResults(session_id).analytics_cleared <=> HasInputData(session_id).analytics)
    /\ [][\A session_id \in SessionIds :
            CleanupSessionInputData(session_id)
                => /\ HasInputData(session_id)' = [history |-> FALSE, draft |-> FALSE, analytics |-> FALSE]
                   /\ CleanupResults(session_id)' = [history_cleared |-> FALSE, draft_cleared |-> FALSE, analytics_cleared |-> FALSE]
                   /\ \A other \in SessionIds \ {session_id} :
                        /\ HasInputData(other)' = HasInputData(other)
                        /\ HistoryOf(other)' = HistoryOf(other)
                        /\ HasInputData(other).draft => input_drafts'[other] = input_drafts[other]
                        /\ HasInputData(other).analytics => input_analytics'[other] = input_analytics[other]
       ]_vars

\* One session has no input data left while the other one has a history of
\* two entries, a draft and analytics
C23_Witness ==
    \E session_id \in SessionIds, other \in SessionIds :
        /\ HasInputData(session_id) = [history |-> FALSE, draft |-> FALSE, analytics |-> FALSE]
        /\ HasInputData(other) = [history |-> TRUE, draft |-> TRUE, analytics |-> TRUE]
        /\ Len(input_history[other]) = MaxHistory
        /\ input_analytics[other].total_inputs = MaxHistory

----------------------------------------------------------------------------
\* Claims about typing indicators, cancellation, pauses and stream states

C25_CancelledStreamStops ==
    [][\A m \in DOMAIN streaming_objects :
          (streaming_objects[m].status = "error" /\ ~streaming_objects[m].is_active)
              => /\ streaming_objects'[m].status = "error"
                 /\ ~streaming_objects'[m].is_active
                 /\ messages'[m].content = messages[m].content
                 /\ messages'[m].status # "completed"
      ]_vars

\* C26: while the state of a stream is PAUSED its characters_sent and the
\* content of its message do not advance, and the status is left only by a
\* reconnection to the session (or by a cancel).
C26_PausedStreamWaits ==
    [][\A m \in DOMAIN streaming_objects :
          streaming_objects[m].status = "paused"
              => /\ streaming_objects'[m].characters_sent = streaming_objects[m].characters_sent
                 /\ messages'[m].content = messages[m].content
                 /\ \/ streaming_objects'[m].status = "paused"
                    \/ \E previous_client_id \in {NoClient} \cup ClientIds :
                          AttemptReconnection(streaming_objects[m].session_id, previous_client_id)
                    \/ CancelStreaming(streaming_objects[m].session_id)
      ]_vars

\* The reconnect_count of a registered client; 0 for one that is not
ReconnectCount(client_id) == IF client_id \in DOMAIN connection_states THEN connection_states[client_id].reconnect_count ELSE 0

\* C30: the connection made by attempt_reconnection with a previous client
\* that is still registered counts one reconnection more than that client;
\* without a previous client it counts 0.
C30_ReconnectCountOfRegistered ==
    [][\A session_id \in SessionIds, client_id \in ClientIds :
          client_id = client_ids + 1
              => /\ \A previous_client_id \in DOMAIN connection_states, before \in 0..MaxClients :
                       (before = ReconnectCount(previous_client_id) /\ AttemptReconnection(session_id, previous_client_id))
                           => ReconnectCount(client_id)' = before + 1
                 /\ AttemptReconnection(session_id, NoClient) => ReconnectCount(client_id)' = 0
      ]_vars

\* C30: the connection made by attempt_reconnection with a previous client
\* that was registered earlier, still registered or dropped, counts at least
\* one reconnection (one more than the previous client's count); checked for
\* the reconnections that find the session's stream paused by a drop.
C30_ReconnectCountOfEarlierClient ==
    [][\A session_id \in SessionIds, client_id \in ClientIds, previous_client_id \in ClientIds :
          (/\ client_id = client_ids + 1
           /\ previous_client_id <= client_ids
           /\ StateOf(session_id) # NoState
           /\ streaming_objects[StateOf(session_id)].status = "paused"
           /\ AttemptReconnection(session_id, previous_client_id))
              => ReconnectCount(client_id)' >= 1
      ]_vars

\* The task streaming message m is still at work: it was created, has not
\* ended, and its message is neither COMPLETED nor FAILED
Running(m) == m \in DOMAIN tasks /\ tasks[m].pc # "done" /\ messages[m].status = "streaming"

\* C28: while a streaming task of a session is still at work,
\* get_streaming_state of that session is active.
C28_ActiveWhileTaskRuns ==
    \A m \in DOMAIN tasks :
        Running(m)
            => /\ StateOf(tasks[m].session_id) # NoState
               /\ streaming_objects[StateOf(tasks[m].session_id)].is_active

\* C27: the streaming state registered for a session never reports more
\* characters sent than its total, nor fewer than 0.
C27_SentWithinTotal ==
    \A session_id \in DOMAIN streaming_states :
        /\ 0 <= streaming_objects[StateOf(session_id)].characters_sent
        /\ streaming_objects[StateOf(session_id)].characters_sent <= streaming_objects[StateOf(session_id)].total_characters

\* C29: every streaming task that was created ends, and has then left its
\* message COMPLETED or FAILED, its id out of the registry of active tasks and
\* the session without typing indicator.
C29_EveryTaskEndsClean ==
    \A m \in 1..MaxStreams :
        [](m \in DOMAIN tasks
              => <>(/\ TaskEnded(m)
                    /\ messages[m].status \in {"completed", "failed"}
                    /\ m \notin active_streaming_tasks
                    /\ tasks[m].session_id \notin DOMAIN typing_indicators))

\* C29: every streaming task that was created ends.
C29_EveryTaskEnds ==
    \A m \in 1..MaxStreams : [](m \in DOMAIN tasks => <>TaskEnded(m))

----------------------------------------------------------------------------
\* Claims about the clients of a stream, missing sessions, chunks, analytics
\* and drafts

\* C31: connected_clients of the streaming state of a session lists every
\* client id once at most, and only ids of connections registered for that
\* session.
C31_ConnectedClientsAreRegisteredOnce ==
    \A session_id \in DOMAIN streaming_states :
        \A k \in 1..Len(ConnectedClients(session_id)) :
            LET client_id == ConnectedClients(session_id)[k]
            IN  /\ Occurrences(ConnectedClients(session_id), client_id) = 1
                /\ client_id \in DOMAIN connection_states
                /\ connection_states[client_id].session_id = session_id

----------------------------------------------------------------------------
\* Claims about the blocks of one run and about two runs of one render

\* No ingested event is later than the evaluation instant
NoEventAfterNow ==
    \A k \in 1..Len(all_entries) : all_entries[k].timestamp <= now

\* C32: when no ingested event is later than now, at most one block is marked
\* active, and an active block is the last block built and no block starts
\* later than it.
C32_ActiveBlockIsLastBuilt ==
    (Marked /\ NoEventAfterNow) =>
        /\ Cardinality(ActiveIndexes) <= 1
        /\ \A i \in ActiveIndexes :
               /\ i = Len(session_blocks)
               /\ \A j \in BlockIndexes :
                      session_blocks[j].start_time <= session_blocks[i].start_time

\* C32 witness: an earlier block and an active last block, no event after now
C32_Witness ==
    /\ Marked
    /\ NoEventAfterNow
    /\ Len(session_blocks) >= 2
    /\ ActiveIndexes = {Len(session_blocks)}

\* C33 (as claimed): each block starts at least the idle gap (2 hours) after
\* the start of the block built before it, so block ids are unique, no block
\* is empty, and the block with the latest start_time is the last one.
C33_StartsTwoHoursApart ==
    Built =>
        /\ \A i \in BlockIndexes :
               i > 1 => session_blocks[i].start_time
                          >= session_blocks[i - 1].start_time + session_gap
        /\ \A i, j \in BlockIndexes :
               i # j => session_blocks[i].id # session_blocks[j].id
        /\ \A i \in BlockIndexes : session_blocks[i].entries # <<>>
        /\ session_blocks # <<>> =>
               MaxByStart(session_blocks) = Last(session_blocks)

\* C33 (amended): block start_times are strictly increasing in the order the
\* blocks are built: each new block starts more than the idle gap less one
\* hour after the start of the block before it, and at least the idle gap
\* after it when the first events of the two blocks carry the same UTC
\* offset; block ids are unique, no block is empty, and the block with the
\* latest start_time is the last one.
C33_StartsStrictlyIncreasing ==
    Built =>
        /\ \A i \in BlockIndexes :
               i > 1 =>
                   /\ session_blocks[i].start_time
                        > session_blocks[i - 1].start_time
                            + session_gap - TicksPerHour
                   /\ session_blocks[i].entries[1].tz
                        = session_blocks[i - 1].entries[1].tz =>
                          session_blocks[i].start_time
                            >= session_blocks[i - 1].start_time + session_gap
        /\ \A i, j \in BlockIndexes :
               i # j => session_blocks[i].id # session_blocks[j].id
        /\ \A i \in BlockIndexes : session_blocks[i].entries # <<>>
        /\ session_blocks # <<>> =>
               MaxByStart(session_blocks) = Last(session_blocks)

\* C33 witness: a block opened by the idle gap whose start is less than the
\* idle gap after the start of the block before it
C33_Witness ==
    /\ Built
    /\ \E i \in BlockIndexes :
           /\ OpenedByGap(i)
           /\ session_blocks[i].start_time
                < session_blocks[i - 1].start_time + session_gap

----------------------------------------------------------------------------
\* The status line (context-monitor-generic.py, main): the reset segment and
\* the cost segment each call the aggregator, one after the other.  Icons are
\* written as words and colour codes are left out of the texts.

\* get_claude_session_reset, lines 502-516: the text for a returned dict
ResetDisplay(session_data) ==
    IF session_data = <<>> THEN "L.R. @ --:--"
    ELSE IF session_data.reset_time = "EXPIRED" THEN "L.R. EXPIRED"
    ELSE IF session_data.reset_time # ""
         THEN "L.R. @ " \o session_data.reset_time \o "(clock)"
    ELSE "L.R. @ --:--"

\* lines 536-545: the icon for cost_percent
CostIcon(percent) ==
    IF percent.num >= 95 * percent.den THEN "(red!)"
    ELSE IF percent.num >= 90 * percent.den THEN "(red)"
    ELSE IF percent.num >= 75 * percent.den THEN "(orange)"
    ELSE IF percent.num >= 60 * percent.den THEN "(yellow)"
    ELSE "(green)"

\* display_percent = min(100, percent / 1.50), as a fraction with the
\* denominator 3 * percent.den
DisplayNum(percent) ==
    IF 2 * percent.num >= 300 * percent.den THEN 300 * percent.den
    ELSE 2 * percent.num

\* lines 548-550: the progress bar of four segments
CostBar(percent) ==
    LET filled == (DisplayNum(percent) * 4) \div (300 * percent.den)
    IN  [i \in 1..4 |-> IF i <= filled THEN "#" ELSE "_"]

\* f"{display_percent:.0f}": the nearest whole number; where the fraction is
\* exactly one half the float quotient of the code falls on either side
DisplayPercents(percent) ==
    LET den == 3 * percent.den
        q   == DisplayNum(percent) \div den
        r   == DisplayNum(percent) % den
    IN  IF 2 * r < den THEN {q}
        ELSE IF 2 * r > den THEN {q + 1}
        ELSE {q, q + 1}

\* get_cost_usage, lines 518-554: the texts for a returned dict (every dict
\* the aggregator returns other than {} has cost_percent)
CostDisplays(session_data) ==
    IF session_data = <<>> THEN {"C.U. (blue)??%"}
    ELSE IF ~session_data.session_active THEN {"C.U. (red)#####EXP"}
    ELSE LET percent == session_data.cost_percent
             bar     == CostBar(percent)
         IN  { "C.U. " \o CostIcon(percent) \o " "
                 \o bar[1] \o bar[2] \o bar[3] \o bar[4]
                 \o " " \o ToString(p) \o "%" : p \in DisplayPercents(percent) }

\* Longest log of a render, and the ticks that can pass between the two calls
MaxRenderLines == 3
MaxRenderTicks == 1

\* One call of get_claude_session_data_claude_monitor_exact at instant n,
\* returning r
RunAggregator(n, r) ==
    LET acc == LoadAll(log, n)
    IN  /\ now' = n
        /\ all_entries' = SortByTimestamp(acc.entries)
        /\ processed_hashes' = acc.hashes
        /\ session_blocks' = BlocksOfRun(log, n)
        /\ r \in ResultsOfRun(log, n)
        /\ result' = r

\* main, line 585
GetClaudeSessionReset ==
    /\ pc = "reset"
    /\ \E r \in ResultsOfRun(log, now) :
         /\ RunAggregator(now, r)
         /\ claude_reset' = ResetDisplay(r)
    /\ pc' = "cost"
    /\ UNCHANGED <<log, cost_usage, chatVars>>

\* The assistant session writes a usage event into its log
AppendToLog ==
    /\ pc = "cost"
    /\ Len(log) < MaxRenderLines
    /\ log' = Append(log, AssistantLine(now, 0, 1, 0, "", "", FirstFile))
    /\ UNCHANGED <<now, pc, all_entries, processed_hashes, session_blocks,
                   result, claude_reset, cost_usage, chatVars>>

\* main, line 586; the call reads the clock again (line 329)
GetCostUsage ==
    /\ pc = "cost"
    /\ \E n \in now..(now + MaxRenderTicks) :
         \E r \in ResultsOfRun(log, n) :
           /\ RunAggregator(n, r)
           /\ cost_usage' \in CostDisplays(r)
    /\ pc' = "rendered"
    /\ UNCHANGED <<log, claude_reset, chatVars>>

\* Logs of a render: events in UTC, half an hour apart or together
RenderLogs ==
    UNION {ChronoLogs(n, {0, Step}, {0}) : n \in 0..MaxRenderLines}

RenderNows == {k * Step : k \in 0..((2 * session_duration) \div Step)}

InitRender ==
    /\ log \in RenderLogs
    /\ now \in RenderNows
    /\ pc = "reset"
    /\ all_entries = <<>>
    /\ processed_hashes = {}
    /\ session_blocks = <<>>
    /\ result = <<>>
    /\ claude_reset = ""
    /\ cost_usage = ""
    /\ NewChatManager

RenderNext ==
    \/ GetClaudeSessionReset
    \/ AppendToLog
    \/ GetCostUsage

SpecRender == InitRender /\ [][RenderNext]_vars

Rendered == pc = "rendered"

\* C34: in a finished render the two segments show the same outcome: the
\* reset segment shows EXPIRED exactly when the cost segment shows EXP, and
\* the reset segment shows --:-- exactly when the cost segment shows ??%.
C34_SegmentsAgree ==
    Rendered =>
        /\ claude_reset = "L.R. EXPIRED" <=> cost_usage = "C.U. (red)#####EXP"
        /\ claude_reset = "L.R. @ --:--" <=> cost_usage = "C.U. (blue)??%"

----------------------------------------------------------------------------
\* Calls that name a session which may not exist, and the HTTP endpoints that
\* look a session up (main.py).  The calls leave response to their caller.

\* ChatMessage(content=content, message_type=USER, status=RECEIVED)
NewUserMessage(content) == [content |-> content, status |-> "received"]

\* The session is missing (ValueError, line 90), or ChatMessage rejects a
\* content over max_length (pydantic's ValidationError, a ValueError); ""
\* when the message is added
AddMessageRaises(session_id, content) ==
    IF session_id \notin DOMAIN sessions THEN "ValueError"
    ELSE IF StrLen(content) > MaxContentLength THEN "ValidationError"
    ELSE ""

\* The str of a run of characters: its leading PadChars are counted
RECURSIVE LeadingPad(_)
LeadingPad(t) ==
    IF t # <<>> /\ t[1] = PadChar THEN 1 + LeadingPad(Tail(t)) ELSE 0

StrOf(t) ==
    [pad |-> LeadingPad(t), text |-> SubSeq(t, LeadingPad(t) + 1, Len(t))]

\* The characters of s, one by one
Expand(s) == [i \in 1..StrLen(s) |-> CharAt(s, i)]

\* s + t
StrConcat(s, t) ==
    IF s.text = <<>>
    THEN [pad |-> s.pad + t.pad, text |-> t.text]
    ELSE [s EXCEPT !.text = @ \o Expand(t)]

Min(a, b) == IF a <= b THEN a ELSE b

\* s[start_idx:end_idx], for 0 <= start_idx <= end_idx <= len(s)
StrSlice(s, start_idx, end_idx) ==
    IF start_idx < s.pad
    THEN [pad  |-> Min(end_idx, s.pad) - start_idx,
          text |-> SubSeq(s.text, 1, end_idx - s.pad)]
    ELSE StrOf(SubSeq(s.text, start_idx - s.pad + 1, end_idx - s.pad))

\* chunk_size of _setup_progressive_loading, and the length a content must
\* exceed for add_message_to_session to set the chunks up
ChunkSize == 200
ProgressiveLoadingThreshold == 1000

\* Variant: every chunk but the last is one character short of chunk_size
MessageChunks_DropsBoundary(message_id, content) ==
    LET chunk_size == ChunkSize
        total_chunks == (StrLen(content) + chunk_size - 1) \div chunk_size
    IN  [k \in 1..total_chunks |->
            LET i == k - 1
                start_idx == i * chunk_size
                end_idx == Min((i + 1) * chunk_size - 1, StrLen(content))
            IN  [ message_id   |-> message_id,
                  chunk_index  |-> i,
                  total_chunks |-> total_chunks,
                  content      |-> StrSlice(content, start_idx, end_idx),
                  is_final     |-> i = total_chunks - 1 ]]

\* _setup_progressive_loading, lines 378-395: the list of MessageChunk made
\* for a content
MessageChunks(message_id, content) ==
    LET chunk_size == ChunkSize
        total_chunks == (StrLen(content) + chunk_size - 1) \div chunk_size
    IN  [k \in 1..total_chunks |->
            LET i == k - 1
                start_idx == i * chunk_size
                end_idx == Min((i + 1) * chunk_size, StrLen(content))
            IN  [ message_id   |-> message_id,
                  chunk_index  |-> i,
                  total_chunks |-> total_chunks,
                  content      |-> StrSlice(content, start_idx, end_idx),
                  is_final     |-> i = total_chunks - 1 ]]

\* The content is one that add_message_to_session sets chunks up for
Chunked(content, enable_progressive_loading) ==
    enable_progressive_loading /\ StrLen(content) > ProgressiveLoadingThreshold

\* Variant: the message is appended before the session is looked up
AddMessageToSession_AppendsFirst(session_id, content, enable_progressive_loading) ==
    /\ raised' = AddMessageRaises(session_id, content)
    /\ messages' = Append(messages, NewUserMessage(content))
    /\ sessions' = IF session_id \in DOMAIN sessions
                   THEN [sessions EXCEPT ![session_id] = Append(@, Len(messages) + 1)]
                   ELSE sessions
    /\ UNCHANGED <<streaming_states, streaming_objects, active_streaming_tasks,
                   tasks, typing_indicators, connection_states,
                   active_connections, connections, handlers, client_ids,
                   aggregatorVars, inputVars, loadingVars>>

\* add_message_to_session, lines 73-119, for a user message: with
\* progressive loading the chunks of a long content are stored (lines
\* 373-399) and set_chunk_info makes the message STREAMING
AddMessageToSession(session_id, content, enable_progressive_loading) ==
    /\ raised' = AddMessageRaises(session_id, content)
    /\ IF AddMessageRaises(session_id, content) # ""
       THEN UNCHANGED <<streamingVars, aggregatorVars, inputVars, loadingVars>>
       ELSE LET m == Len(messages) + 1
            IN  /\ IF Chunked(content, enable_progressive_loading)
                   THEN /\ message_chunks' =
                               Put(message_chunks, m, MessageChunks(m, content))
                        /\ messages' = Append(messages,
                               [NewUserMessage(content) EXCEPT !.status = "streaming"])
                   ELSE /\ messages' = Append(messages, NewUserMessage(content))
                        /\ UNCHANGED message_chunks
                /\ sessions' = [sessions EXCEPT ![session_id] = Append(@, m)]
                /\ UNCHANGED <<streaming_states, streaming_objects,
                               active_streaming_tasks, tasks, typing_indicators,
                               connection_states, active_connections,
                               connections, handlers, client_ids,
                               aggregatorVars, inputVars>>

\* process_user_message, lines 121-150, up to the sleep, with its defaults
\* (no progressive loading, streaming): the user message is added (an
\* exception of add_message_to_session ends the call) and goes through
\* COMPLETED to PROCESSING
ProcessUserMessage(session_id, content, typing_speed_wpm) ==
    /\ raised' = AddMessageRaises(session_id, content)
    /\ IF AddMessageRaises(session_id, content) # ""
       THEN UNCHANGED <<streamingVars, aggregatorVars, inputVars, loadingVars>>
       ELSE LET m == Len(messages) + 1
            IN  /\ messages' = Append(messages,
                       [NewUserMessage(content) EXCEPT !.status = "processing"])
                /\ sessions' = [sessions EXCEPT ![session_id] = Append(@, m)]
                /\ handlers' = handlers (+)
                       SetToBag({Frame("process", session_id, m, content,
                                       typing_speed_wpm)})
                /\ UNCHANGED <<streaming_states, streaming_objects,
                               active_streaming_tasks, tasks, typing_indicators,
                               connection_states, active_connections,
                               connections, client_ids, aggregatorVars,
                               inputVars, loadingVars>>

\* len(str(n))
RECURSIVE Digits(_)
Digits(n) == IF n < 10 THEN 1 ELSE 1 + Digits(n \div 10)

\* Characters of the two reply templates that a content without the
\* keywords and without whitespace can get, the content and its length left
\* out
DefaultTemplateLength == 346
LongTemplateLength == 598

\* _generate_enhanced_response, lines 192-262, for such a content: the reply
\* quotes the content (the long reply quotes it as its only word and again
\* its first 200 characters) and its length.  The reply is kept as a run of
\* PadChar of the reply's length.
GenerateEnhancedResponse(user_content) ==
    LET n == StrLen(user_content)
    IN  IF n > 500
        THEN [pad |-> LongTemplateLength + Digits(n) + n + 200, text |-> <<>>]
        ELSE [pad |-> DefaultTemplateLength + Digits(n) + n, text |-> <<>>]

\* process_user_message after its sleep, lines 152-166: the reply is handed
\* to start_message_streaming with thinking time, which sets the typing
\* indicator and sleeps (lines 902-930; sessions are never removed, so the
\* session is there)
ProcessResumed(h) ==
    /\ BagIn(h, handlers)
    /\ h.kind = "process"
    /\ LET m == Len(messages) + 1
           response_content == GenerateEnhancedResponse(h.message_content)
       IN  /\ messages' = Append(messages, NewMessage)
           /\ sessions' = [sessions EXCEPT ![h.session_id] = Append(@, m)]
           /\ streaming_objects' =
                  Append(streaming_objects,
                         NewStreamingState(h.session_id, m, response_content))
           /\ streaming_states' = Put(streaming_states, h.session_id, m)
           /\ typing_indicators' =
                  Put(typing_indicators, h.session_id, [is_typing |-> TRUE])
           /\ handlers' = (handlers (-) SetToBag({h})) (+)
                  SetToBag({Frame("start", h.session_id, m, response_content,
                                  h.typing_speed_wpm)})
    /\ raised' = ""
    /\ UNCHANGED <<tasks, active_streaming_tasks, connection_states,
                   active_connections, connections, client_ids, response,
                   aggregatorVars, inputVars, loadingVars>>

\* The session id of a request, as text: the text of a UUID or not
RequestIds ==
    {[well_formed |-> TRUE, uuid |-> s] : s \in SessionIds}
        \cup {[well_formed |-> FALSE, uuid |-> 0]}

\* An exception of a class without arguments of interest, and
\* HTTPException(status_code, detail)
Raised(class) == [class |-> class, status_code |-> 0, detail |-> ""]

HTTPException(status_code, detail) ==
    [class |-> "HTTPException", status_code |-> status_code, detail |-> detail]

\* The response of a handler that returns
Returned == [class |-> "", status_code |-> 200, detail |-> ""]

\* except ValueError: 400 / except Exception: 500, for an exception raised
\* inside the try block; an HTTPException is an Exception and no ValueError
Caught(exc, invalid_detail, error_detail) ==
    IF exc.class \in {"ValueError", "ValidationError"}
    THEN HTTPException(400, invalid_detail)
    ELSE HTTPException(500, error_detail)

\* GET /api/sessions/{session_id}/history, lines 415-443, with
\* get_enhanced_session_history, which returns None for a missing session
\* (chat_manager.py 581-583)
GetSessionHistory(session_id) ==
    /\ response' =
           IF ~session_id.well_formed
           THEN Caught(Raised("ValueError"), "Invalid session ID format",
                       "Error retrieving history")
           ELSE IF session_id.uuid \notin DOMAIN sessions
           THEN Caught(HTTPException(404, "Session not found"),
                       "Invalid session ID format", "Error retrieving history")
           ELSE Returned
    /\ raised' = IF session_id.well_formed THEN "" ELSE raised
    /\ UNCHANGED <<streamingVars, aggregatorVars, inputVars, loadingVars>>

\* POST /api/chat, lines 282-335: the response of a call that is suspended
\* is sent when the call returns and is not recorded
SendMessage(session_id, content, typing_speed_wpm) ==
    IF ~session_id.well_formed
    THEN /\ response' = Caught(Raised("ValueError"), "Invalid session ID",
                               "Error processing message")
         /\ UNCHANGED <<raised, streamingVars, aggregatorVars, inputVars, loadingVars>>
    ELSE /\ ProcessUserMessage(session_id.uuid, content, typing_speed_wpm)
         /\ response' =
                IF AddMessageRaises(session_id.uuid, content) # ""
                THEN Caught(Raised(AddMessageRaises(session_id.uuid, content)),
                            "Invalid session ID", "Error processing message")
                ELSE response

\* POST /api/sessions/{session_id}/stream, lines 1181-1224, for a request
\* without thinking time
StartStreamingMessage(session_id, request) ==
    IF ~session_id.well_formed
    THEN /\ response' = Caught(Raised("ValueError"), "Invalid session ID format",
                               "Error starting streaming")
         /\ UNCHANGED <<raised, streamingVars, aggregatorVars, inputVars, loadingVars>>
    ELSE IF session_id.uuid \notin DOMAIN sessions
    THEN /\ response' = Caught(HTTPException(404, "Session not found"),
                               "Invalid session ID format",
                               "Error starting streaming")
         /\ raised' = ""
         /\ UNCHANGED <<streamingVars, aggregatorVars, inputVars, loadingVars>>
    ELSE IF request.session_id # session_id.uuid
    THEN /\ response' = Caught(HTTPException(400, "Session ID mismatch"),
                               "Invalid session ID format",
                               "Error starting streaming")
         /\ raised' = ""
         /\ UNCHANGED <<streamingVars, aggregatorVars, inputVars, loadingVars>>
    ELSE /\ StartMessageStreaming(session_id.uuid, request.message_content,
                                  request.typing_speed_wpm, FALSE)
         /\ response' = Returned

\* Bound of the explored calls: messages in the sessions before a call that
\* adds one
MaxMessages == 1

\* Contents and requests of the explored calls
CallContents == {[pad |-> 1, text |-> <<"b">>]}

StreamingRequests ==
    { [session_id |-> s, message_content |-> c, typing_speed_wpm |-> 150] :
        s \in SessionIds, c \in CallContents }

\* The call names no session, or the sessions have room for its messages
RoomFor(session_id) ==
    session_id \in DOMAIN sessions => Len(messages) < MaxMessages

CallAddMessageToSession ==
    \E session_id \in SessionIds, content \in CallContents \cup LongContents,
       enable_progressive_loading \in BOOLEAN :
        /\ RoomFor(session_id)
        /\ AddMessageToSession(session_id, content, enable_progressive_loading)
        /\ UNCHANGED response

CallProcessUserMessage ==
    \E session_id \in SessionIds, content \in CallContents :
        /\ RoomFor(session_id)
        /\ ProcessUserMessage(session_id, content, 150)
        /\ UNCHANGED response

CallStartMessageStreaming ==
    \E session_id \in SessionIds, content \in CallContents,
       include_thinking_time \in BOOLEAN :
        /\ RoomFor(session_id)
        /\ StartMessageStreaming(session_id, content, 150, include_thinking_time)
        /\ UNCHANGED response

RequestGetSessionHistory ==
    \E session_id \in RequestIds : GetSessionHistory(session_id)

RequestSendMessage ==
    \E session_id \in RequestIds, content \in CallContents :
        /\ session_id.well_formed => RoomFor(session_id.uuid)
        /\ SendMessage(session_id, content, 150)

RequestStartStreamingMessage ==
    \E session_id \in RequestIds, request \in StreamingRequests :
        /\ session_id.well_formed => RoomFor(session_id.uuid)
        /\ StartStreamingMessage(session_id, request)

\* No connection is registered, so that a task is suspended in its sleeps
\* alone
CallsNext ==
    \/ CreateSession
    \/ CallAddMessageToSession
    \/ CallProcessUserMessage
    \/ CallStartMessageStreaming
    \/ \E h \in BagToSet(handlers) : ProcessResumed(h)
    \/ \E h \in BagToSet(handlers) : CreateStreamingTask(h)
    \/ \E m \in DOMAIN tasks : StreamBegin(m)
    \/ \E m \in DOMAIN tasks : StreamAfterSleep(m)

SpecCalls == InitChat /\ [][CallsNext]_vars

EndpointsNext ==
    \/ CreateSession
    \/ RequestGetSessionHistory
    \/ RequestSendMessage
    \/ RequestStartStreamingMessage
    \/ \E h \in BagToSet(handlers) : ProcessResumed(h)
    \/ \E h \in BagToSet(handlers) : CreateStreamingTask(h)
    \/ \E m \in DOMAIN tasks : StreamBegin(m)
    \/ \E m \in DOMAIN tasks : StreamAfterSleep(m)

SpecEndpoints == InitChat /\ [][EndpointsNext]_vars

\* The response to a request for the history of a session
HistoryResponseTo(session_id) ==
    IF ~session_id.well_formed
    THEN HTTPException(400, "Invalid session ID format")
    ELSE IF session_id.uuid \notin DOMAIN sessions
    THEN HTTPException(404, "Session not found")
    ELSE Returned

\* C35: an endpoint that looks a session up answers 404 'Session not found'
\* to the well-formed id of a missing session and 400 to a malformed id
\* alone: a history request gets the response above, and a request to send a
\* message or to start a stream that names a missing session gets 404.
C35_MissingSessionIs404 ==
    [][ /\ \A session_id \in RequestIds :
              GetSessionHistory(session_id) =>
                  response' = HistoryResponseTo(session_id)
        /\ \A session_id \in RequestIds :
              ( /\ session_id.well_formed
                /\ session_id.uuid \notin DOMAIN sessions
                /\ \/ \E content \in CallContents :
                          SendMessage(session_id, content, 150)
                   \/ \E request \in StreamingRequests :
                          StartStreamingMessage(session_id, request) ) =>
                  response' = HTTPException(404, "Session not found") ]_vars

\* C36: add_message_to_session, process_user_message and
\* start_message_streaming, called with a session id that names no session,
\* raise ValueError and leave the state of the manager as it was: no message,
\* streaming state, task or typing indicator is created.
C36_MissingSessionRaisesValueError ==
    [][ \A session_id \in SessionIds :
          ( /\ session_id \notin DOMAIN sessions
            /\ \/ \E content \in CallContents \cup LongContents,
                     enable_progressive_loading \in BOOLEAN :
                      AddMessageToSession(session_id, content,
                                          enable_progressive_loading)
               \/ \E content \in CallContents :
                      ProcessUserMessage(session_id, content, 150)
               \/ \E content \in CallContents,
                     include_thinking_time \in BOOLEAN :
                      StartMessageStreaming(session_id, content, 150,
                                            include_thinking_time) ) =>
              /\ raised' = "ValueError"
              /\ UNCHANGED <<streamingVars, inputVars, loadingVars>> ]_vars

\* C36 witness: a call has raised ValueError while another session exists,
\* and the manager holds no message, state, task or indicator
C36_Witness ==
    /\ raised = "ValueError"
    /\ Len(sessions) = 1
    /\ messages = <<>>
    /\ streaming_states = <<>>
    /\ tasks = <<>>
    /\ typing_indicators = <<>>
    /\ message_chunks = <<>>

----------------------------------------------------------------------------
\* Long messages added with progressive loading

\* Bound of the explored contents: characters after the leading run
MaxChunkText == 3

\* Contents whose lengths lie around the threshold and around the ends of the
\* fifth and sixth chunk
ChunkContents ==
    { [pad |-> k * ChunkSize - d, text |-> t.text] :
        k \in 4..6, d \in 0..3,
        t \in {s \in Texts(MaxChunkText) : s.pad = 0} }

AddChunkedMessage ==
    /\ messages = <<>>
    /\ \E content \in ChunkContents, enable_progressive_loading \in BOOLEAN :
           AddMessageToSession(1, content, enable_progressive_loading)
    /\ UNCHANGED response

ChunksNext ==
    \/ CreateOnlySession
    \/ AddChunkedMessage

SpecChunks == InitChat /\ [][ChunksNext]_vars

\* The contents of the first k chunks, one after the other
RECURSIVE JoinChunks(_, _)
JoinChunks(chunks, k) ==
    IF k = 0 THEN EmptyStr
    ELSE StrConcat(JoinChunks(chunks, k - 1), chunks[k].content)

\* C37: the chunks stored for a message have the indexes 0..n-1, where
\* n = ceil(len(content) / 200) is the total_chunks of each; each holds at
\* most 200 characters, the last one alone is final, and their contents in
\* the order of the indexes make up the content of the message.
C37_ChunksReconstructMessage ==
    \A m \in DOMAIN message_chunks :
        LET chunks == message_chunks[m]
            content == messages[m].content
            n == Len(chunks)
        IN  /\ (n - 1) * 200 < StrLen(content)
            /\ StrLen(content) <= n * 200
            /\ \A k \in 1..n :
                   /\ chunks[k].chunk_index = k - 1
                   /\ chunks[k].total_chunks = n
                   /\ StrLen(chunks[k].content) <= 200
                   /\ chunks[k].is_final <=> k = n
            /\ JoinChunks(chunks, n) = content

\* C37 witness: a message stored in seven chunks, the last of which begins
\* with the character the sixth ends with
C37_Witness ==
    \E m \in DOMAIN message_chunks :
        /\ Len(message_chunks[m]) = 7
        /\ message_chunks[m][7].content = [pad |-> 1, text |-> <<"b">>]

----------------------------------------------------------------------------
\* Claims about the input analytics and the drafts

\* Sum of input_length over the entries of a history
RECURSIVE TotalInputLength(_)
TotalInputLength(history) ==
    IF history = <<>> THEN 0
    ELSE history[1].input_length + TotalInputLength(Tail(history))

\* C38: a session has input analytics exactly when it has input history,
\* and then total_inputs is the number of its history entries and
\* total_characters the sum of their input_length.
C38_AnalyticsMatchHistory ==
    \A session_id \in SessionIds :
        /\ session_id \in DOMAIN input_analytics
             <=> session_id \in DOMAIN input_history
        /\ session_id \in DOMAIN input_history =>
             /\ input_history[session_id] # <<>>
             /\ input_analytics[session_id].total_inputs
                  = Len(input_history[session_id])
             /\ input_analytics[session_id].total_characters
                  = TotalInputLength(input_history[session_id])

\* C38 witness: a session with two inputs of different lengths beside a
\* session without any
C38_Witness ==
    \E session_id \in SessionIds :
        /\ session_id \in DOMAIN input_history
        /\ Len(input_history[session_id]) = 2
        /\ input_history[session_id][1].input_length
             # input_history[session_id][2].input_length
        /\ input_analytics[session_id].total_inputs = 2
        /\ \E other \in SessionIds : other \notin DOMAIN input_analytics

\* What C39 says of the draft stored by save_draft(session_id, request)
DraftMatchesRequest(draft, content, cursor_position) ==
    /\ draft.content = content
    /\ draft.cursor_position = cursor_position
    /\ draft.character_count = Len(content)
    /\ draft.word_count = WordCount(content)

\* C39: after every save_draft, first or repeated, the stored draft of the
\* session has the request's content and cursor_position, character_count
\* the length of the content and word_count its number of
\* whitespace-separated words.
C39_SavedDraftHasCounts ==
    [][\A session_id \in SessionIds, content \in DraftContents, cursor_position \in CursorPositions :
         SaveDraft(session_id, content, cursor_position)
           => /\ session_id \in DOMAIN input_drafts'
              /\ DraftMatchesRequest(input_drafts'[session_id], content, cursor_position)]_vars

====
